---- MODULE Spec2Model ----
(***************************************************************************)
(* ccNexus protocol transformer: the streaming state machines that convert *)
(* OpenAI Chat Completions SSE chunks to Claude SSE events and back, with  *)
(* the <think>-tag streaming scanner they share.                           *)
(*                                                                         *)
(* Strings are sequences of one-character strings, so that the scanner's   *)
(* substring searches and slices are computed as the Go code computes them.*)
(***************************************************************************)
EXTENDS Integers, Sequences, FiniteSets, TLC

VARIABLES ctx, out, done, last, doc, pos, nExtra, nReason, upTools, phase

vars == <<ctx, out, done, last, doc, pos, nExtra, nReason, upTools, phase>>

(***************************************************************************)
(* Bounds of the model.                                                    *)
(***************************************************************************)
\* non-content elements (reasoning deltas, tool-call entries, usage objects,
\* finish reasons) a stream over a short content string may carry
MaxExtra == 3
\* the same, for a stream over a long content string (one with think markers)
MaxExtraLong == 1
\* tool-call entries in one chunk's delta.tool_calls
MaxEntries == 2
\* events of a Claude upstream stream (Claude -> Chat direction)
MaxClaudeEvents == 7

(***************************************************************************)
(* String helpers (Go's strings package).                                  *)
(***************************************************************************)
Empty == << >>

thinkTagOpen == <<"<", "t", "h", "i", "n", "k", ">">>

thinkTagClose == <<"<", "/", "t", "h", "i", "n", "k", ">">>

\* s[from:] with Go's 0-based offsets
From(s, from) == SubSeq(s, from + 1, Len(s))

\* s[:to]
UpTo(s, to) == SubSeq(s, 1, to)

\* strings.HasPrefix(s, prefix)
HasPrefix(s, prefix) ==
    /\ Len(prefix) <= Len(s)
    /\ SubSeq(s, 1, Len(prefix)) = prefix

\* strings.Index(s, sub): offset of the first occurrence, -1 when there is none
Index(s, sub) ==
    LET hits == {i \in 0..(Len(s) - Len(sub)) : SubSeq(s, i + 1, i + Len(sub)) = sub}
    IN IF hits = {} THEN -1 ELSE CHOOSE i \in hits : \A j \in hits : i <= j

\* strings.Contains(s, sub)
Contains(s, sub) == Index(s, sub) # -1

Min(a, b) == IF a < b THEN a ELSE b

\* a faulty splitter that never holds a partial marker back
splitTrailingPartialTag_NoHold(s, tag) == <<s, Empty>>

\* a faulty splitter that holds back at most len(tag)-2 bytes
splitTrailingPartialTag_ShortMax(s, tag) ==
    IF s = Empty \/ tag = Empty THEN <<s, Empty>>
    ELSE LET max == Min(Len(tag) - 2, Len(s))
             fit == {i \in 1..max : HasPrefix(tag, From(s, Len(s) - i))}
         IN IF fit = {} THEN <<s, Empty>>
            ELSE LET i == CHOOSE k \in fit : \A j \in fit : j <= k
                 IN <<UpTo(s, Len(s) - i), From(s, Len(s) - i)>>

\* splitTrailingPartialTag: <<text, buffer>> where buffer is the longest proper
\* suffix-of-s that is a prefix of tag (at most len(tag)-1 bytes)
splitTrailingPartialTag(s, tag) ==
    IF s = Empty \/ tag = Empty THEN <<s, Empty>>
    ELSE LET max == Min(Len(tag) - 1, Len(s))
             fit == {i \in 1..max : HasPrefix(tag, From(s, Len(s) - i))}
         IN IF fit = {} THEN <<s, Empty>>
            ELSE LET i == CHOOSE k \in fit : \A j \in fit : j <= k
                 IN <<UpTo(s, Len(s) - i), From(s, Len(s) - i)>>

(***************************************************************************)
(* Claude SSE events (buildClaudeEvent): the event name and its payload.   *)
(***************************************************************************)
EvMessageStart(id, model) ==
    [type |-> "message_start", id |-> id, model |-> model,
     input_tokens |-> 0, output_tokens |-> 0]

EvBlockStart(index, block, id, name) ==
    [type |-> "content_block_start", index |-> index, block |-> block,
     id |-> id, name |-> name]

EvBlockDelta(index, dtype, text) ==
    [type |-> "content_block_delta", index |-> index, dtype |-> dtype, text |-> text]

EvBlockStop(index) == [type |-> "content_block_stop", index |-> index]

\* stop_reason "" stands for a delta object without stop_reason: "delta": {}
EvMessageDelta(stop_reason, usage) ==
    [type |-> "message_delta", stop_reason |-> stop_reason, usage |-> usage]

EvMessageStop == [type |-> "message_stop"]

\* result = append(result, buildClaudeEvent(...)...)
Emit(s, ev) == [s EXCEPT !.result = Append(@, ev)]

(***************************************************************************)
(* StreamContext                                                           *)
(***************************************************************************)
NewStreamContext ==
    [MessageStartSent |-> FALSE,
     ContentBlockStarted |-> FALSE,
     ThinkingBlockStarted |-> FALSE,
     ToolBlockStarted |-> FALSE,
     MessageID |-> "",
     ModelName |-> "",
     InputTokens |-> 0,
     OutputTokens |-> 0,
     ContentIndex |-> 0,
     ThinkingIndex |-> 0,
     ToolIndex |-> 0,
     FinishReasonSent |-> FALSE,
     CurrentToolID |-> "",
     CurrentToolName |-> "",
     ToolArguments |-> Empty,
     InThinkingTag |-> FALSE,
     ThinkingBuffer |-> Empty,
     PendingThinkingText |-> Empty]

(***************************************************************************)
(* makeThinkEmitters: the two closures over ctx and result.                *)
(***************************************************************************)
emitText(s, text) ==
    IF text = Empty THEN s
    ELSE LET s1 == IF ~s.ctx.ContentBlockStarted
                   THEN Emit([s EXCEPT !.ctx.ContentBlockStarted = TRUE],
                             EvBlockStart(s.ctx.ContentIndex, "text", "", ""))
                   ELSE s
         IN Emit(s1, EvBlockDelta(s1.ctx.ContentIndex, "text_delta", text))

emitThinking(s, text) ==
    IF text = Empty THEN s
    ELSE LET s1 == IF ~s.ctx.ThinkingBlockStarted
                   THEN LET a == IF s.ctx.ContentBlockStarted
                                 THEN [Emit(s, EvBlockStop(s.ctx.ContentIndex))
                                         EXCEPT !.ctx.ContentBlockStarted = FALSE,
                                                !.ctx.ContentIndex = @ + 1]
                                 ELSE s
                            b == [a EXCEPT !.ctx.ThinkingBlockStarted = TRUE,
                                           !.ctx.ThinkingIndex = a.ctx.ContentIndex,
                                           !.ctx.ContentIndex = @ + 1]
                        IN Emit(b, EvBlockStart(b.ctx.ThinkingIndex, "thinking", "", ""))
                   ELSE s
         IN Emit(s1, EvBlockDelta(s1.ctx.ThinkingIndex, "thinking_delta", text))

\* the closure emitTextWithClose of the two ->Claude stream transformers
emitTextWithClose(s, text) ==
    IF text = Empty THEN s
    ELSE LET s1 == IF /\ s.ctx.ThinkingBlockStarted
                      /\ ~s.ctx.ContentBlockStarted
                      /\ ~s.ctx.InThinkingTag
                   THEN [Emit(s, EvBlockStop(s.ctx.ThinkingIndex))
                           EXCEPT !.ctx.ThinkingBlockStarted = FALSE]
                   ELSE s
         IN emitText(s1, text)

\* the closure emitThinkingWithClose
emitThinkingWithClose(s, text) ==
    IF text = Empty THEN s
    ELSE LET s1 == emitThinking(s, text)
         IN IF s1.ctx.ThinkingBlockStarted
            THEN [Emit(s1, EvBlockStop(s1.ctx.ThinkingIndex))
                    EXCEPT !.ctx.ThinkingBlockStarted = FALSE]
            ELSE s1

(***************************************************************************)
(* The streaming think-tag scanner.  Both callers pass emitTextWithClose   *)
(* and emitThinkingWithClose to consumeThinkTaggedStream, and the plain    *)
(* emitters to flushThinkTaggedStream.                                     *)
(***************************************************************************)
\* a faulty scanner that skips only len(thinkTagOpen) bytes at a </think>
RECURSIVE consumeThinkTaggedStream_ShortClose(_, _)
consumeThinkTaggedStream_ShortClose(content, s) ==
    IF Len(content) = 0 THEN s
    ELSE IF s.ctx.InThinkingTag
    THEN LET closeIdx == Index(content, thinkTagClose)
         IN IF closeIdx = -1
            THEN LET sp == splitTrailingPartialTag(content, thinkTagClose)
                     s1 == IF sp[1] # Empty THEN emitThinkingWithClose(s, sp[1]) ELSE s
                 IN [s1 EXCEPT !.ctx.ThinkingBuffer = sp[2]]
            ELSE LET s1 == IF closeIdx > 0
                           THEN emitThinkingWithClose(s, UpTo(content, closeIdx))
                           ELSE s
                     s2 == [s1 EXCEPT !.ctx.InThinkingTag = FALSE]
                 IN consumeThinkTaggedStream_ShortClose(
                        From(content, closeIdx + Len(thinkTagOpen)), s2)
    ELSE LET openIdx == Index(content, thinkTagOpen)
         IN IF openIdx = -1
            THEN LET sp == splitTrailingPartialTag(content, thinkTagOpen)
                     s1 == emitTextWithClose(s, sp[1])
                 IN [s1 EXCEPT !.ctx.ThinkingBuffer = sp[2]]
            ELSE LET s1 == emitTextWithClose(s, UpTo(content, openIdx))
                     s2 == [s1 EXCEPT !.ctx.InThinkingTag = TRUE]
                 IN consumeThinkTaggedStream_ShortClose(
                        From(content, openIdx + Len(thinkTagOpen)), s2)

RECURSIVE consumeThinkTaggedStream(_, _)
consumeThinkTaggedStream(content, s) ==
    IF Len(content) = 0 THEN s
    ELSE IF s.ctx.InThinkingTag
    THEN LET closeIdx == Index(content, thinkTagClose)
         IN IF closeIdx = -1
            THEN LET sp == splitTrailingPartialTag(content, thinkTagClose)
                     s1 == IF sp[1] # Empty THEN emitThinkingWithClose(s, sp[1]) ELSE s
                 IN [s1 EXCEPT !.ctx.ThinkingBuffer = sp[2]]
            ELSE LET s1 == IF closeIdx > 0
                           THEN emitThinkingWithClose(s, UpTo(content, closeIdx))
                           ELSE s
                     s2 == [s1 EXCEPT !.ctx.InThinkingTag = FALSE]
                 IN consumeThinkTaggedStream(From(content, closeIdx + Len(thinkTagClose)), s2)
    ELSE LET openIdx == Index(content, thinkTagOpen)
         IN IF openIdx = -1
            THEN LET sp == splitTrailingPartialTag(content, thinkTagOpen)
                     s1 == emitTextWithClose(s, sp[1])
                 IN [s1 EXCEPT !.ctx.ThinkingBuffer = sp[2]]
            ELSE LET s1 == emitTextWithClose(s, UpTo(content, openIdx))
                     s2 == [s1 EXCEPT !.ctx.InThinkingTag = TRUE]
                 IN consumeThinkTaggedStream(From(content, openIdx + Len(thinkTagOpen)), s2)

\* a faulty flush that forgets the scanner's mode and emits the held bytes as text
flushThinkTaggedStream_AsText(s) ==
    LET s1 == IF s.ctx.ThinkingBuffer # Empty
              THEN emitText(s, s.ctx.ThinkingBuffer) ELSE s
    IN [s1 EXCEPT !.ctx.InThinkingTag = FALSE,
                  !.ctx.ThinkingBuffer = Empty,
                  !.ctx.PendingThinkingText = Empty]

flushThinkTaggedStream(s) ==
    LET s1 == IF s.ctx.InThinkingTag
              THEN (IF s.ctx.ThinkingBuffer # Empty
                    THEN emitThinking(s, s.ctx.ThinkingBuffer) ELSE s)
              ELSE (IF s.ctx.ThinkingBuffer # Empty
                    THEN emitText(s, s.ctx.ThinkingBuffer) ELSE s)
    IN [s1 EXCEPT !.ctx.InThinkingTag = FALSE,
                  !.ctx.ThinkingBuffer = Empty,
                  !.ctx.PendingThinkingText = Empty]

(***************************************************************************)
(* OpenAIStreamToClaude: one call per Chat Completions SSE frame.          *)
(* A frame is its data payload: "[DONE]", or a parsed OpenAIStreamChunk    *)
(* (FinishReason "null" is the nil pointer; Usage.present = FALSE is nil). *)
(***************************************************************************)
NoChunkUsage == [present |-> FALSE, PromptTokens |-> 0, CompletionTokens |-> 0]

DoneFrame ==
    [data |-> "[DONE]", ID |-> "", hasChoices |-> FALSE, Role |-> "", Content |-> Empty,
     ReasoningContent |-> Empty, ToolCalls |-> << >>, FinishReason |-> "null",
     Usage |-> NoChunkUsage]

\* no frame yet; also the frame without a data line, which the transformer ignores
NoFrame == [DoneFrame EXCEPT !.data = ""]

\* the three "close any open block" statements shared by [DONE] and finish_reason
closeOpenBlocks(s) ==
    LET s1 == IF s.ctx.ThinkingBlockStarted
              THEN [Emit(s, EvBlockStop(s.ctx.ThinkingIndex))
                      EXCEPT !.ctx.ThinkingBlockStarted = FALSE]
              ELSE s
        s2 == IF s1.ctx.ContentBlockStarted
              THEN [Emit(s1, EvBlockStop(s1.ctx.ContentIndex))
                      EXCEPT !.ctx.ContentBlockStarted = FALSE]
              ELSE s1
    IN IF s2.ctx.ToolBlockStarted
       THEN [Emit(s2, EvBlockStop(s2.ctx.ToolIndex))
               EXCEPT !.ctx.ToolBlockStarted = FALSE]
       ELSE s2

\* a faulty [DONE] branch that emits its message_delta whatever came before
chatDone_AlwaysDelta(s) ==
    LET s1 == flushThinkTaggedStream(s)
        s2 == closeOpenBlocks(s1)
    IN Emit(Emit(s2, EvMessageDelta("end_turn", [output_tokens |-> 0])), EvMessageStop)

\* the [DONE] branch
chatDone(s) ==
    LET s1 == flushThinkTaggedStream(s)
        s2 == closeOpenBlocks(s1)
        s3 == IF ~s2.ctx.FinishReasonSent
              THEN Emit(s2, EvMessageDelta("end_turn",
                            [output_tokens |-> 0]))
              ELSE s2
    IN Emit(s3, EvMessageStop)

\* message_start, once
chatMessageStart(s, chunk) ==
    IF ~s.ctx.MessageStartSent
    THEN Emit([s EXCEPT !.ctx.MessageStartSent = TRUE, !.ctx.MessageID = chunk.ID],
              EvMessageStart(chunk.ID, s.ctx.ModelName))
    ELSE s

\* a faulty usage mapping that swaps the two counters
chatUsageDelta_Swapped(s, chunk) ==
    Emit(s, EvMessageDelta("", [input_tokens |-> chunk.Usage.CompletionTokens,
                                 output_tokens |-> chunk.Usage.PromptTokens]))

\* the message_delta that re-surfaces a usage chunk
chatUsageDelta(s, chunk) ==
    Emit(s, EvMessageDelta("", [input_tokens |-> chunk.Usage.PromptTokens,
                                 output_tokens |-> chunk.Usage.CompletionTokens]))

\* a faulty reasoning step that takes the thinking block's index after the increment
chatReasoning_IndexAfterIncrement(s, delta) ==
    IF delta.ReasoningContent # Empty
    THEN LET s1 == IF ~s.ctx.ThinkingBlockStarted
                   THEN LET a == [s EXCEPT !.ctx.ThinkingBlockStarted = TRUE,
                                           !.ctx.ThinkingIndex = s.ctx.ContentIndex + 1,
                                           !.ctx.ContentIndex = @ + 1]
                        IN Emit(a, EvBlockStart(a.ctx.ThinkingIndex, "thinking", "", ""))
                   ELSE s
         IN Emit(s1, EvBlockDelta(s1.ctx.ThinkingIndex, "thinking_delta",
                                  delta.ReasoningContent))
    ELSE s

\* delta.reasoning_content
chatReasoning(s, delta) ==
    IF delta.ReasoningContent # Empty
    THEN LET s1 == IF ~s.ctx.ThinkingBlockStarted
                   THEN LET a == [s EXCEPT !.ctx.ThinkingBlockStarted = TRUE,
                                           !.ctx.ThinkingIndex = s.ctx.ContentIndex,
                                           !.ctx.ContentIndex = @ + 1]
                        IN Emit(a, EvBlockStart(a.ctx.ThinkingIndex, "thinking", "", ""))
                   ELSE s
         IN Emit(s1, EvBlockDelta(s1.ctx.ThinkingIndex, "thinking_delta",
                                  delta.ReasoningContent))
    ELSE s

\* a faulty content step that scans the chunk without the bytes held over from
\* the previous one
chatContent_DropBuffer(s, delta) ==
    IF delta.Content # Empty
    THEN consumeThinkTaggedStream(delta.Content, [s EXCEPT !.ctx.ThinkingBuffer = Empty])
    ELSE s

\* delta.content
chatContent(s, delta) ==
    IF delta.Content # Empty
    THEN LET content == s.ctx.ThinkingBuffer \o delta.Content
             s1 == [s EXCEPT !.ctx.ThinkingBuffer = Empty]
         IN consumeThinkTaggedStream(content, s1)
    ELSE s

\* one entry of delta.tool_calls
chatToolCall(s, tc) ==
    LET s1 == IF tc.ID # ""
              THEN LET a == IF s.ctx.ThinkingBlockStarted
                            THEN [Emit(s, EvBlockStop(s.ctx.ThinkingIndex))
                                    EXCEPT !.ctx.ThinkingBlockStarted = FALSE]
                            ELSE s
                       b == IF a.ctx.ContentBlockStarted
                            THEN [Emit(a, EvBlockStop(a.ctx.ContentIndex))
                                    EXCEPT !.ctx.ContentBlockStarted = FALSE,
                                           !.ctx.ContentIndex = @ + 1]
                            ELSE a
                       c == IF b.ctx.ToolBlockStarted
                            THEN [Emit(b, EvBlockStop(b.ctx.ToolIndex))
                                    EXCEPT !.ctx.ContentIndex = @ + 1]
                            ELSE b
                       d == [c EXCEPT !.ctx.ToolBlockStarted = TRUE,
                                      !.ctx.ToolIndex = c.ctx.ContentIndex,
                                      !.ctx.CurrentToolID = tc.ID,
                                      !.ctx.CurrentToolName = tc.Name,
                                      !.ctx.ToolArguments = Empty]
                   IN Emit(d, EvBlockStart(d.ctx.ToolIndex, "tool_use", tc.ID, tc.Name))
              ELSE s
    IN IF tc.Arguments # Empty
       THEN Emit([s1 EXCEPT !.ctx.ToolArguments = @ \o tc.Arguments],
                 EvBlockDelta(s1.ctx.ToolIndex, "input_json_delta", tc.Arguments))
       ELSE s1

\* for _, tc := range delta.ToolCalls
RECURSIVE chatToolCalls(_, _)
chatToolCalls(s, tcs) ==
    IF tcs = << >> THEN s
    ELSE chatToolCalls(chatToolCall(s, Head(tcs)), Tail(tcs))

\* a faulty finish step that reports finish_reason "length" as max_tokens
chatFinish_LengthAsMaxTokens(s, finish) ==
    IF finish # "null"
    THEN LET s1 == closeOpenBlocks(s)
             stopReason == CASE finish = "tool_calls" -> "tool_use"
                             [] finish = "length" -> "max_tokens"
                             [] OTHER -> "end_turn"
             s2 == Emit(s1, EvMessageDelta(stopReason, [output_tokens |-> 0]))
         IN [s2 EXCEPT !.ctx.FinishReasonSent = TRUE]
    ELSE s

\* choice.FinishReason != nil
chatFinish(s, finish) ==
    IF finish # "null"
    THEN LET s1 == closeOpenBlocks(s)
             stopReason == IF finish = "tool_calls" THEN "tool_use" ELSE "end_turn"
             s2 == Emit(s1, EvMessageDelta(stopReason,
                            [output_tokens |-> 0]))
         IN [s2 EXCEPT !.ctx.FinishReasonSent = TRUE]
    ELSE s

OpenAIStreamToClaude(f, c) ==
    LET s0 == [ctx |-> c, result |-> << >>]
    IN IF f.data = "[DONE]" THEN chatDone(s0)
       ELSE IF f.data \in {"", "invalid"} THEN s0
       ELSE LET s1 == chatMessageStart(s0, f)
            IN IF ~f.hasChoices
               THEN (IF f.Usage.present THEN chatUsageDelta(s1, f) ELSE s1)
               ELSE IF /\ f.Usage.present
                       /\ f.Role = ""
                       /\ f.Content = Empty
                       /\ f.ReasoningContent = Empty
                       /\ Len(f.ToolCalls) = 0
                       /\ f.FinishReason = "null"
               THEN chatUsageDelta(s1, f)
               ELSE chatFinish(chatToolCalls(chatContent(chatReasoning(s1, f), f),
                                             f.ToolCalls),
                               f.FinishReason)

(***************************************************************************)
(* The upstream of the Chat -> Claude direction.  The content stream is a  *)
(* string doc delivered in chunks cut at arbitrary offsets; reasoning      *)
(* deltas, tool-call entries, usage objects and the finish reason arrive   *)
(* in any order around it.  After the chunk carrying finish_reason the     *)
(* upstream sends only chunks without a delta (the usage chunk), then      *)
(* [DONE]; [DONE] may arrive at any time.                                  *)
(***************************************************************************)
DocThinkText == thinkTagOpen \o <<"r", "s">> \o thinkTagClose \o <<"t", "u">>

DocOverlap == thinkTagOpen \o <<"x", "<">> \o thinkTagClose \o <<"<", "t">>

DocUnclosed == <<"<">> \o thinkTagOpen \o <<"b", "<", "/", "t">>

DocStrayClose == thinkTagClose

DocNestedOpen == thinkTagOpen \o thinkTagOpen

DocTextLt == <<"a", "<">>

LongDocs == {DocThinkText, DocOverlap, DocUnclosed}

\* contents whose marker bytes the scanner passes on: every segmentation of them
\* gives an output of its own
PlainDocs == {DocStrayClose, DocNestedOpen}

Docs == LongDocs \cup PlainDocs \cup {DocTextLt}

\* how many deltas other than content the upstream sends around each content
Budget(d) ==
    IF d \in PlainDocs THEN MaxExtraLong - 1
    ELSE IF d \in LongDocs THEN MaxExtraLong
    ELSE MaxExtra

ToolIDs == <<"call_a", "call_b", "call_c", "call_d", "call_e", "call_f", "call_g", "call_h", "call_i", "call_j">>

ToolNames == <<"fn_a", "fn_b", "fn_c", "fn_d", "fn_e", "fn_f", "fn_g", "fn_h", "fn_i", "fn_j">>

\* the n-th arguments fragment of the stream: every fragment is a distinct byte
Digits == <<"0", "1", "2", "3", "4", "5", "6", "7", "8", "9">>

RECURSIVE SumLen(_)
SumLen(ss) == IF ss = << >> THEN 0 ELSE Len(Head(ss).args) + SumLen(Tail(ss))

\* the entries the upstream may send next: the first delta of a new tool call
\* (index, id, name, with or without arguments) or an arguments fragment for the
\* index of a call it has started
NextEntries(n, nf) ==
    {[Index |-> n, ID |-> ToolIDs[n + 1], Name |-> ToolNames[n + 1], Arguments |-> a] :
        a \in {Empty, <<Digits[nf + 1]>>}}
    \cup {[Index |-> i, ID |-> "", Name |-> "", Arguments |-> <<Digits[nf + 1]>>] :
            i \in 0..(n - 1)}

RECURSIVE ToolEntrySeqs(_, _, _)
ToolEntrySeqs(k, n, nf) ==
    IF k = 0 THEN {<< >>}
    ELSE {<< >>} \cup
         UNION {{<<e>> \o rest :
                    rest \in ToolEntrySeqs(k - 1,
                                           IF e.ID # "" THEN n + 1 ELSE n,
                                           nf + Len(e.Arguments))} :
                e \in NextEntries(n, nf)}

\* the upstream's own record of its tool calls, by index
RECURSIVE ApplyEntries(_, _)
ApplyEntries(up, tcs) ==
    IF tcs = << >> THEN up
    ELSE LET e == Head(tcs)
             up1 == IF e.ID # ""
                    THEN Append(up, [id |-> e.ID, name |-> e.Name, args |-> e.Arguments])
                    ELSE [up EXCEPT ![e.Index + 1].args = @ \o e.Arguments]
         IN ApplyEntries(up1, Tail(tcs))

ChunkUsage == [present |-> TRUE, PromptTokens |-> 5, CompletionTokens |-> 7]

B2N(b) == IF b THEN 1 ELSE 0

FrameCost(f) ==
    B2N(f.ReasoningContent # Empty) + Len(f.ToolCalls) + B2N(f.FinishReason # "null")
    + B2N(f.Usage.present)

Init ==
    /\ ctx = [NewStreamContext EXCEPT !.ModelName = "claude-model"]
    /\ out = << >>
    /\ done = FALSE
    /\ last = NoFrame
    /\ doc \in Docs
    /\ pos = 0
    /\ nExtra = 0
    /\ nReason = 0
    /\ upTools = << >>
    /\ phase = "streaming"

\* the transformer is called on frame f
Deliver(f) ==
    LET s == OpenAIStreamToClaude(f, ctx)
    IN /\ ctx' = s.ctx
       /\ out' = out \o s.result
       /\ last' = f

\* a chunk whose choice carries a delta (reasoning, content, tool calls) or the
\* finish reason, while the choice is not finished; usage may ride on the chunk
\* that carries the finish reason
ChatChunk ==
    /\ ~done
    /\ phase = "streaming"
    /\ LET rem == Budget(doc) - nExtra
       IN \E k \in 0..(Len(doc) - pos),
             r \in IF rem > 0 THEN {Empty, <<"r">>} ELSE {Empty},
             tcs \in ToolEntrySeqs(Min(MaxEntries, rem), Len(upTools), SumLen(upTools)),
             fin \in IF rem > 0 THEN {"null", "stop", "tool_calls", "length"} ELSE {"null"},
             u \in IF rem > 1 THEN {NoChunkUsage, ChunkUsage} ELSE {NoChunkUsage} :
        LET f == [data |-> "json", ID |-> "chatcmpl-1", hasChoices |-> TRUE, Role |-> "",
                  Content |-> SubSeq(doc, pos + 1, pos + k), ReasoningContent |-> r,
                  ToolCalls |-> tcs, FinishReason |-> fin, Usage |-> u]
        IN /\ k > 0 \/ r # Empty \/ tcs # << >> \/ fin # "null"
           /\ u.present => fin # "null"
           /\ FrameCost(f) <= rem
           /\ Deliver(f)
           /\ pos' = pos + k
           /\ nExtra' = nExtra + FrameCost(f)
           /\ nReason' = nReason + B2N(r # Empty)
           /\ upTools' = ApplyEntries(upTools, tcs)
           /\ phase' = IF fin # "null" THEN "finished" ELSE "streaming"
    /\ UNCHANGED <<done, doc>>

\* a chunk without content delta: no choices, or a choice whose delta is empty or
\* carries only the role; with or without usage
ChatBareChunk ==
    /\ ~done
    /\ \E hc \in BOOLEAN, role \in {"", "assistant"}, u \in {NoChunkUsage, ChunkUsage} :
        LET f == [data |-> "json", ID |-> "chatcmpl-1", hasChoices |-> hc, Role |-> role,
                  Content |-> Empty, ReasoningContent |-> Empty,
                  ToolCalls |-> << >>, FinishReason |-> "null", Usage |-> u]
        IN /\ role # "" => hc /\ phase = "streaming"
           /\ nExtra + FrameCost(f) <= Budget(doc)
           /\ Deliver(f)
           /\ nExtra' = nExtra + FrameCost(f)
    /\ UNCHANGED <<done, doc, pos, nReason, upTools, phase>>

\* data: [DONE]
ChatDone ==
    /\ ~done
    /\ Deliver(DoneFrame)
    /\ done' = TRUE
    /\ UNCHANGED <<doc, pos, nExtra, nReason, upTools, phase>>

Next == ChatChunk \/ ChatBareChunk \/ ChatDone

Spec == Init /\ [][Next]_vars

(***************************************************************************)
(* Observations on the emitted Claude event sequence.                      *)
(***************************************************************************)
IsStart(e) == e.type = "content_block_start"

IsStop(e) == e.type = "content_block_stop"

IsTextDelta(e) == e.type = "content_block_delta" /\ e.dtype = "text_delta"

IsThinkingDelta(e) == e.type = "content_block_delta" /\ e.dtype = "thinking_delta"

IsContentDelta(e) == IsTextDelta(e) \/ IsThinkingDelta(e)

IsJsonDelta(e) == e.type = "content_block_delta" /\ e.dtype = "input_json_delta"

IsThinkingStart(e) == IsStart(e) /\ e.block = "thinking"

IsTextStart(e) == IsStart(e) /\ e.block = "text"

IsToolStart(e) == IsStart(e) /\ e.block = "tool_use"

RECURSIVE ConcatText(_)
ConcatText(es) == IF es = << >> THEN Empty ELSE Head(es).text \o ConcatText(Tail(es))

\* concatenation of the text_delta.text values, in emission order
TextOf(es) == ConcatText(SelectSeq(es, IsTextDelta))

\* concatenation of the thinking_delta.thinking values
ThinkOf(es) == ConcatText(SelectSeq(es, IsThinkingDelta))

\* concatenation of both, in emission order
ContentOf(es) == ConcatText(SelectSeq(es, IsContentDelta))

\* the content the upstream has sent so far
Delivered == SubSeq(doc, 1, pos)

\* the content string with the markers of its think regions removed: regions open
\* at the first <think> and close at the first </think> after it, alternately
RECURSIVE StripMarkers(_, _)
StripMarkers(str, inTag) ==
    LET tag == IF inTag THEN thinkTagClose ELSE thinkTagOpen
        idx == Index(str, tag)
    IN IF idx = -1 THEN str
       ELSE UpTo(str, idx) \o StripMarkers(From(str, idx + Len(tag)), ~inTag)

\* the event-name grammar
\*   message_start (content_block_start content_block_delta* content_block_stop)*
\*   message_delta? message_stop
\* as an automaton over the event names
GrammarStep(q, t) ==
    CASE q = "init" /\ t = "message_start" -> "idle"
      [] q = "idle" /\ t = "content_block_start" -> "block"
      [] q = "idle" /\ t = "message_delta" -> "delta"
      [] q = "idle" /\ t = "message_stop" -> "end"
      [] q = "block" /\ t = "content_block_delta" -> "block"
      [] q = "block" /\ t = "content_block_stop" -> "idle"
      [] q = "delta" /\ t = "message_stop" -> "end"
      [] OTHER -> "bad"

RECURSIVE GrammarRun(_, _)
GrammarRun(q, es) ==
    IF es = << >> THEN q ELSE GrammarRun(GrammarStep(q, Head(es).type), Tail(es))

\* the stream as one chunk carrying all the delivered content, then [DONE]
WholeRun(content) ==
    LET f == [data |-> "json", ID |-> "chatcmpl-1", hasChoices |-> TRUE, Role |-> "",
              Content |-> content, ReasoningContent |-> Empty, ToolCalls |-> << >>,
              FinishReason |-> "null", Usage |-> NoChunkUsage]
        a == OpenAIStreamToClaude(f, [NewStreamContext EXCEPT !.ModelName = "claude-model"])
        b == OpenAIStreamToClaude(DoneFrame, a.ctx)
    IN a.result \o b.result

(***************************************************************************)
(* C1 (refuted by the code): when the stream has ended with [DONE], the    *)
(* emitted events, by name, form a word of the grammar                     *)
(* message_start (content_block_start content_block_delta*                 *)
(* content_block_stop)* message_delta? message_stop.                       *)
(***************************************************************************)
C1_GrammarAtDone == done => GrammarRun("init", out) = "end"

C3_NoMarkerLeak ==
    \A i \in 1..Len(out) :
        IsContentDelta(out[i]) =>
            /\ ~Contains(out[i].text, thinkTagOpen)
            /\ ~Contains(out[i].text, thinkTagClose)

(***************************************************************************)
(* C4: the scanner's output does not depend on the chunk boundaries: when  *)
(* the stream has ended, the text emissions concatenate to what the same   *)
(* content gives when it arrives as one chunk, and so do the thinking      *)
(* emissions (in a stream without reasoning_content, every thinking_delta  *)
(* is an emission of the scanner).                                         *)
(***************************************************************************)
C4_PartitionIndependent ==
    done =>
        /\ TextOf(out) = TextOf(WholeRun(Delivered))
        /\ nReason = 0 => ThinkOf(out) = ThinkOf(WholeRun(Delivered))

\* the think-then-text content delivered in at least four chunks, with both
\* kinds of emission present
C4_Witness ==
    /\ done
    /\ nReason = 0
    /\ doc = DocThinkText
    /\ pos = Len(doc)
    /\ Len(SelectSeq(out, IsThinkingDelta)) = 2
    /\ Len(SelectSeq(out, IsTextDelta)) = 2

(***************************************************************************)
(* C5 (refuted by the code): the indices of the successive                 *)
(* content_block_start events start at 0, never decrease and are pairwise  *)
(* distinct.                                                               *)
(***************************************************************************)
C5_StartIndices ==
    LET starts == SelectSeq(out, IsStart)
    IN /\ starts # << >> => starts[1].index = 0
       /\ \A i \in 1..(Len(starts) - 1) : starts[i].index < starts[i + 1].index

\* position in es of the k-th event satisfying the test given as the set of
\* positions that satisfy it
KthOf(ps, k) == CHOOSE i \in ps : Cardinality({j \in ps : j <= i}) = k

ToolStartPositions(es) == {i \in 1..Len(es) : IsToolStart(es[i])}

\* the partial_json values emitted between the k-th tool_use block's
\* content_block_start and its content_block_stop, concatenated; its stop is the
\* first later content_block_stop with its index that does not stop a block
\* started, with the same index, after it
ToolBlockArgs(es, k) ==
    LET p == KthOf(ToolStartPositions(es), k)
        x == es[p].index
        Between(j, Test(_)) ==
            Cardinality({i \in (p + 1)..(j - 1) : Test(es[i]) /\ es[i].index = x})
        stops == {j \in (p + 1)..Len(es) :
                     /\ IsStop(es[j])
                     /\ es[j].index = x
                     /\ Between(j, IsStart) = Between(j, IsStop)}
        q == IF stops = {} THEN Len(es) + 1
             ELSE CHOOSE j \in stops : \A j2 \in stops : j <= j2
    IN ConcatText(SelectSeq(SubSeq(es, p + 1, q - 1), IsJsonDelta))

(***************************************************************************)
(* C6 (refuted by the code): when the stream has ended, every upstream     *)
(* tool call has its tool_use block, and the partial_json values emitted   *)
(* between that block's start and its stop concatenate to the arguments    *)
(* fragments the upstream sent for that tool call, in order.               *)
(***************************************************************************)
C6_ToolArguments ==
    done =>
        /\ Cardinality(ToolStartPositions(out)) = Len(upTools)
        /\ \A k \in 1..Len(upTools) : ToolBlockArgs(out, k) = upTools[k].args

(***************************************************************************)
(* C7 (refuted by the code): a stream whose content is <think>rs</think>tu *)
(* and that carries nothing else yields, however the content is cut,       *)
(* exactly one thinking block, with thinking "rs", and exactly one text    *)
(* block, with text "tu".                                                  *)
(***************************************************************************)
C7_OneThinkingOneText ==
    (done /\ doc = DocThinkText /\ pos = Len(doc) /\ nExtra = 0) =>
        /\ Len(SelectSeq(out, IsThinkingStart)) = 1
        /\ ThinkOf(out) = <<"r", "s">>
        /\ Len(SelectSeq(out, IsTextStart)) = 1
        /\ TextOf(out) = <<"t", "u">>

\* the delivered content opens a think region that it never closes
OpenIdx == Index(Delivered, thinkTagOpen)

OpensUnclosed ==
    /\ OpenIdx # -1
    /\ ~Contains(From(Delivered, OpenIdx + Len(thinkTagOpen)), thinkTagClose)

\* every started thinking block is stopped later, by a content_block_stop that
\* carries its index
ThinkingBlocksClosed(es) ==
    \A i \in 1..Len(es) :
        IsThinkingStart(es[i]) =>
            \E j \in (i + 1)..Len(es) : IsStop(es[j]) /\ es[j].index = es[i].index

(***************************************************************************)
(* C8: when the content opens <think> and [DONE] arrives before any        *)
(* </think>, the text emitted is exactly the content before the marker,    *)
(* the content after the marker is emitted as thinking (all of it,         *)
(* including what the scanner held in thinking_buffer at [DONE]), every    *)
(* thinking block is stopped, the scanner state is reset, and message_stop *)
(* is the last event.                                                      *)
(***************************************************************************)
C8_UnclosedThinkAtDone ==
    (done /\ OpensUnclosed) =>
        /\ TextOf(out) = UpTo(Delivered, OpenIdx)
        /\ nReason = 0 => ThinkOf(out) = From(Delivered, OpenIdx + Len(thinkTagOpen))
        /\ ThinkingBlocksClosed(out)
        /\ ~ctx.ThinkingBlockStarted
        /\ ctx.ThinkingBuffer = Empty
        /\ out[Len(out)] = EvMessageStop

\* [DONE] arrived while the scanner held "</t" in thinking mode, and flushed it
C8_Witness ==
    /\ done
    /\ doc = DocUnclosed
    /\ pos = Len(doc)
    /\ OpensUnclosed
    /\ \E i \in 1..Len(out) : IsThinkingDelta(out[i]) /\ out[i].text = <<"<", "/", "t">>

\* the frame carries usage and no content delta
UsageOnly(f) ==
    /\ f.data = "json"
    /\ f.Usage.present
    /\ \/ ~f.hasChoices
       \/ /\ f.Role = ""
          /\ f.Content = Empty
          /\ f.ReasoningContent = Empty
          /\ f.ToolCalls = << >>
          /\ f.FinishReason = "null"

\* the fields of the context a usage chunk must leave alone
BlockState(c) ==
    <<c.ContentBlockStarted, c.ThinkingBlockStarted, c.ToolBlockStarted,
      c.ContentIndex, c.ThinkingIndex, c.ToolIndex,
      c.InThinkingTag, c.ThinkingBuffer, c.ToolArguments, c.FinishReasonSent>>

(***************************************************************************)
(* C9: a step in which the transformer receives a chunk with usage and no  *)
(* content delta appends to the output a message_delta with an (empty)     *)
(* delta object and usage input_tokens = prompt_tokens, output_tokens =    *)
(* completion_tokens, preceded only by message_start when that was still   *)
(* due, and leaves the open-block flags, the block indices and the scanner *)
(* state as they were.                                                     *)
(***************************************************************************)
C9_UsageChunk ==
    [][UsageOnly(last') =>
          LET ev == EvMessageDelta("", [input_tokens |-> last'.Usage.PromptTokens,
                                         output_tokens |-> last'.Usage.CompletionTokens])
          IN /\ out' = out \o (IF ctx.MessageStartSent THEN << >>
                               ELSE <<EvMessageStart(last'.ID, ctx.ModelName)>>) \o <<ev>>
             /\ BlockState(ctx') = BlockState(ctx)]_vars

\* a usage chunk was just received in the middle of an open text block
C9_Witness ==
    /\ UsageOnly(last)
    /\ ctx.ContentBlockStarted
    /\ out[Len(out)].type = "message_delta"
    /\ out[Len(out)].usage = [input_tokens |-> 5, output_tokens |-> 7]

(***************************************************************************)
(* ClaudeStreamToOpenAI: one call per Claude SSE event; the output is a    *)
(* sequence of Chat Completions stream chunks (buildOpenAIChunk) or the    *)
(* terminator data: [DONE].                                                *)
(***************************************************************************)
OpenAIChunk(id, model, content, toolCalls, finish) ==
    [kind |-> "chunk", id |-> id, model |-> model, content |-> content,
     tool_calls |-> toolCalls, finish_reason |-> finish]

OpenAIDone == [kind |-> "[DONE]"]

\* case "content_block_start"
c2oBlockStart(s, ev) ==
    IF ev.block = "tool_use"
    THEN [s EXCEPT !.ctx.ToolBlockStarted = TRUE,
                   !.ctx.CurrentToolID = ev.id,
                   !.ctx.CurrentToolName = ev.name]
    ELSE s

\* case "content_block_delta"
c2oBlockDelta(s, ev, model) ==
    CASE ev.dtype = "text_delta" ->
            Emit(s, OpenAIChunk(s.ctx.MessageID, model, ev.text, << >>, ""))
      [] ev.dtype = "input_json_delta" ->
            [s EXCEPT !.ctx.ToolArguments = @ \o ev.text]
      [] OTHER -> s

\* a faulty block close that keeps the accumulated arguments
c2oBlockStop_NoClear(s, model) ==
    IF s.ctx.ToolBlockStarted
    THEN [Emit(s, OpenAIChunk(s.ctx.MessageID, model, Empty,
                              <<[index |-> s.ctx.ContentIndex, id |-> s.ctx.CurrentToolID,
                                 type |-> "function", name |-> s.ctx.CurrentToolName,
                                 arguments |-> s.ctx.ToolArguments]>>, ""))
            EXCEPT !.ctx.ToolBlockStarted = FALSE,
                   !.ctx.ContentIndex = @ + 1]
    ELSE s

\* a faulty block close that advances ContentIndex at the stop of every block
c2oBlockStop_CountEveryBlock(s, model) ==
    IF s.ctx.ToolBlockStarted
    THEN [Emit(s, OpenAIChunk(s.ctx.MessageID, model, Empty,
                              <<[index |-> s.ctx.ContentIndex, id |-> s.ctx.CurrentToolID,
                                 type |-> "function", name |-> s.ctx.CurrentToolName,
                                 arguments |-> s.ctx.ToolArguments]>>, ""))
            EXCEPT !.ctx.ToolBlockStarted = FALSE,
                   !.ctx.ToolArguments = Empty,
                   !.ctx.ContentIndex = @ + 1]
    ELSE [s EXCEPT !.ctx.ContentIndex = @ + 1]

\* case "content_block_stop"
c2oBlockStop(s, model) ==
    IF s.ctx.ToolBlockStarted
    THEN [Emit(s, OpenAIChunk(s.ctx.MessageID, model, Empty,
                              <<[index |-> s.ctx.ContentIndex, id |-> s.ctx.CurrentToolID,
                                 type |-> "function", name |-> s.ctx.CurrentToolName,
                                 arguments |-> s.ctx.ToolArguments]>>, ""))
            EXCEPT !.ctx.ToolBlockStarted = FALSE,
                   !.ctx.ToolArguments = Empty,
                   !.ctx.ContentIndex = @ + 1]
    ELSE s

\* a faulty message_delta case that reports every stop_reason as "stop"
c2oMessageDelta_AlwaysStop(s, ev, model) ==
    Emit(s, OpenAIChunk(s.ctx.MessageID, model, Empty, << >>, "stop"))

\* case "message_delta"
c2oMessageDelta(s, ev, model) ==
    LET finish == IF ev.stop_reason = "tool_use" THEN "tool_calls" ELSE "stop"
    IN Emit(s, OpenAIChunk(s.ctx.MessageID, model, Empty, << >>, finish))

\* the frame's data line is not JSON (json.Unmarshal fails)
BadData(ev) == "data" \in DOMAIN ev /\ ev.data = "invalid"

ClaudeStreamToOpenAI(ev, c, model) ==
    LET s == [ctx |-> c, result |-> << >>]
    IN CASE BadData(ev) -> s
         [] ev.type = "message_start" -> [s EXCEPT !.ctx.MessageID = ev.id]
         [] ev.type = "content_block_start" -> c2oBlockStart(s, ev)
         [] ev.type = "content_block_delta" -> c2oBlockDelta(s, ev, model)
         [] ev.type = "content_block_stop" -> c2oBlockStop(s, model)
         [] ev.type = "message_delta" -> c2oMessageDelta(s, ev, model)
         [] ev.type = "message_stop" -> Emit(s, OpenAIDone)
         [] OTHER -> s

(***************************************************************************)
(* The upstream of the Claude -> Chat direction: a Claude event stream,    *)
(* message_start, then content blocks one at a time (text, thinking or     *)
(* tool_use, each start, deltas, stop), pings anywhere, then message_delta *)
(* and message_stop.  phase is the upstream's position in it, pos the      *)
(* index of its next block, upTools its tool_use blocks so far.            *)
(***************************************************************************)
NoEvent == [type |-> ""]

EvPing == [type |-> "ping"]

InitC2O ==
    /\ ctx = NewStreamContext
    /\ out = << >>
    /\ done = FALSE
    /\ last = NoEvent
    /\ doc = Empty
    /\ pos = 0
    /\ nExtra = 0
    /\ nReason = 0
    /\ upTools = << >>
    /\ phase = "c_init"

DeliverC2O(ev) ==
    LET s == ClaudeStreamToOpenAI(ev, ctx, "gpt-model")
    IN /\ ctx' = s.ctx
       /\ out' = out \o s.result
       /\ last' = ev

ClaudeMessageStart ==
    /\ phase = "c_init"
    /\ DeliverC2O(EvMessageStart("msg_1", "claude-model"))
    /\ phase' = "c_idle"
    /\ UNCHANGED <<done, doc, pos, nExtra, nReason, upTools>>

ClaudeBlockStart ==
    /\ phase = "c_idle"
    /\ nExtra < MaxClaudeEvents
    /\ \E block \in {"text", "thinking", "tool_use"} :
        LET n == Len(upTools)
            ev == IF block = "tool_use"
                  THEN EvBlockStart(pos, block, ToolIDs[n + 1], ToolNames[n + 1])
                  ELSE EvBlockStart(pos, block, "", "")
        IN /\ DeliverC2O(ev)
           /\ phase' = "c_" \o block
           /\ upTools' = IF block = "tool_use"
                         THEN Append(upTools, [id |-> ev.id, name |-> ev.name,
                                               args |-> Empty, closed |-> FALSE])
                         ELSE upTools
    /\ nExtra' = nExtra + 1
    /\ UNCHANGED <<done, doc, pos, nReason>>

ClaudeBlockDelta ==
    /\ phase \in {"c_text", "c_thinking", "c_tool_use"}
    /\ nExtra < MaxClaudeEvents
    /\ LET tok == <<Digits[nExtra + 1]>>
           ev == CASE phase = "c_text" -> EvBlockDelta(pos, "text_delta", tok)
                   [] phase = "c_thinking" -> EvBlockDelta(pos, "thinking_delta", tok)
                   [] OTHER -> EvBlockDelta(pos, "input_json_delta", tok)
       IN /\ DeliverC2O(ev)
          /\ upTools' = IF phase = "c_tool_use"
                        THEN [upTools EXCEPT ![Len(upTools)].args = @ \o tok]
                        ELSE upTools
    /\ nExtra' = nExtra + 1
    /\ UNCHANGED <<done, doc, pos, nReason, phase>>

ClaudeBlockStop ==
    /\ phase \in {"c_text", "c_thinking", "c_tool_use"}
    /\ DeliverC2O(EvBlockStop(pos))
    /\ upTools' = IF phase = "c_tool_use"
                  THEN [upTools EXCEPT ![Len(upTools)].closed = TRUE]
                  ELSE upTools
    /\ pos' = pos + 1
    /\ phase' = "c_idle"
    /\ UNCHANGED <<done, doc, nExtra, nReason>>

ClaudePing ==
    /\ phase \notin {"c_init", "c_end"}
    /\ DeliverC2O(EvPing)
    /\ UNCHANGED <<done, doc, pos, nExtra, nReason, upTools, phase>>

ClaudeMessageDelta ==
    /\ phase = "c_idle"
    /\ \E sr \in {"end_turn", "tool_use", "max_tokens"} :
        DeliverC2O(EvMessageDelta(sr, [output_tokens |-> 9]))
    /\ phase' = "c_delta"
    /\ UNCHANGED <<done, doc, pos, nExtra, nReason, upTools>>

ClaudeMessageStop ==
    /\ phase = "c_delta"
    /\ DeliverC2O(EvMessageStop)
    /\ phase' = "c_end"
    /\ done' = TRUE
    /\ UNCHANGED <<doc, pos, nExtra, nReason, upTools>>

NextC2O ==
    \/ ClaudeMessageStart
    \/ ClaudeBlockStart
    \/ ClaudeBlockDelta
    \/ ClaudeBlockStop
    \/ ClaudePing
    \/ ClaudeMessageDelta
    \/ ClaudeMessageStop

SpecC2O == InitC2O /\ [][NextC2O]_vars

IsToolChunk(ch) == ch.kind = "chunk" /\ ch.tool_calls # << >>

ClosedTools == SelectSeq(upTools, LAMBDA t : t.closed)

(***************************************************************************)
(* C10: in a Claude -> Chat stream the chunks that carry delta.tool_calls  *)
(* are, in order, one per closed tool_use block, each with one entry       *)
(* holding the id and name of the block's content_block_start and, as      *)
(* arguments, the concatenation of the block's input_json_delta partials;  *)
(* a content_block_start or an input_json_delta produces no output, the    *)
(* stop of a tool_use block produces exactly its chunk, and the            *)
(* accumulator is empty outside an open tool_use block.                    *)
(***************************************************************************)
C10_ToolCallsAtBlockStop ==
    [][/\ (last'.type = "content_block_start" \/ IsJsonDelta(last')) => out' = out
       /\ (last'.type = "content_block_stop" /\ phase = "c_tool_use") =>
            LET t == upTools'[Len(upTools')]
            IN /\ Len(out') = Len(out) + 1
               /\ SubSeq(out', 1, Len(out)) = out
               /\ IsToolChunk(out'[Len(out')])
               /\ Len(out'[Len(out')].tool_calls) = 1
               /\ out'[Len(out')].tool_calls[1].id = t.id
               /\ out'[Len(out')].tool_calls[1].name = t.name
               /\ out'[Len(out')].tool_calls[1].arguments = t.args
               /\ ctx'.ToolArguments = Empty
       /\ Len(SelectSeq(out', IsToolChunk)) = Len(ClosedTools')
      ]_vars

\* two tool_use blocks have been closed, the second after two partials
C10_Witness ==
    /\ last.type = "content_block_stop"
    /\ Len(upTools) = 2
    /\ upTools[2].closed
    /\ Len(upTools[1].args) = 1
    /\ Len(upTools[2].args) = 2
    /\ Len(SelectSeq(out, IsToolChunk)) = 2

(***************************************************************************)
(* Two streams, each with a StreamContext of its own, whose transformer    *)
(* calls interleave.  The transformers have no package-level variable: a   *)
(* call reaches only the context it is given and its local result.  Here   *)
(* ctx, out and pos are pairs (one component per stream), doc is the pair  *)
(* of the scripts the two upstreams play, last is the call just made.      *)
(***************************************************************************)
MaxIsoFrames == 5

ChatFrame(content, r, tcs, fin, u) ==
    [data |-> "json", ID |-> "chatcmpl-1", hasChoices |-> TRUE, Role |-> "",
     Content |-> content, ReasoningContent |-> r, ToolCalls |-> tcs,
     FinishReason |-> fin, Usage |-> u]

ToolStart(i, args) ==
    [Index |-> i, ID |-> ToolIDs[i + 1], Name |-> ToolNames[i + 1], Arguments |-> args]

ToolMore(i, args) == [Index |-> i, ID |-> "", Name |-> "", Arguments |-> args]

\* think-tagged content cut inside both markers, then finish and [DONE]
ScriptThink ==
    <<ChatFrame(<<"<", "t", "h">>, Empty, << >>, "null", NoChunkUsage),
      ChatFrame(<<"i", "n", "k", ">", "r", "<">>, Empty, << >>, "null", NoChunkUsage),
      ChatFrame(<<"/", "t", "h", "i", "n", "k", ">", "t", "<">>, Empty, << >>, "null",
                NoChunkUsage),
      ChatFrame(Empty, Empty, << >>, "stop", NoChunkUsage),
      DoneFrame,
      DoneFrame>>

\* two tool calls with arguments in fragments, finish, usage, [DONE]
ScriptTools ==
    <<ChatFrame(Empty, Empty, <<ToolStart(0, Empty)>>, "null", NoChunkUsage),
      ChatFrame(Empty, Empty, <<ToolMore(0, <<"0">>)>>, "null", NoChunkUsage),
      ChatFrame(Empty, Empty, <<ToolStart(1, <<"1">>)>>, "null", NoChunkUsage),
      ChatFrame(Empty, Empty, << >>, "tool_calls", NoChunkUsage),
      [ChatFrame(Empty, Empty, << >>, "null", ChunkUsage) EXCEPT !.hasChoices = FALSE],
      DoneFrame>>

\* reasoning, text, a tool call, more text, [DONE] without a finish reason
ScriptMixed ==
    <<ChatFrame(Empty, <<"r">>, << >>, "null", NoChunkUsage),
      ChatFrame(<<"a", "<">>, Empty, << >>, "null", NoChunkUsage),
      ChatFrame(Empty, Empty, <<ToolStart(0, <<"0">>)>>, "null", NoChunkUsage),
      ChatFrame(<<"t", "b">>, <<"r">>, << >>, "null", NoChunkUsage),
      DoneFrame,
      ChatFrame(<<"c">>, Empty, << >>, "null", NoChunkUsage)>>

Scripts == <<ScriptThink, ScriptTools, ScriptMixed>>

Streams == {1, 2}

Other(i) == 3 - i

\* what is left of stream i's script
HasNext(i) == pos[i] < Min(MaxIsoFrames, Len(Scripts[doc[i]]))

\* a faulty call that keeps the scanner's held bytes in the context of stream 1,
\* whichever context it is given
StreamCall_SharedBuffer(i, f, cs) ==
    LET s == OpenAIStreamToClaude(f, [cs[i] EXCEPT !.ThinkingBuffer = cs[1].ThinkingBuffer])
    IN [ctxs |-> [[cs EXCEPT ![i] = s.ctx] EXCEPT ![1].ThinkingBuffer = s.ctx.ThinkingBuffer],
        result |-> s.result]

\* OpenAIStreamToClaude(event, ctx) called with the context of stream i
StreamCall(i, f, cs) ==
    LET s == OpenAIStreamToClaude(f, cs[i])
    IN [ctxs |-> [cs EXCEPT ![i] = s.ctx], result |-> s.result]

InitIso ==
    /\ ctx = <<[NewStreamContext EXCEPT !.ModelName = "claude-model"],
               [NewStreamContext EXCEPT !.ModelName = "claude-model"]>>
    /\ out = <<<< >>, << >>>>
    /\ done = FALSE
    /\ last = [stream |-> 0, frame |-> NoFrame]
    /\ doc \in (1..Len(Scripts)) \X (1..Len(Scripts))
    /\ pos = <<0, 0>>
    /\ nExtra = 0
    /\ nReason = 0
    /\ upTools = << >>
    /\ phase = "iso"

StreamStep(i) ==
    /\ HasNext(i)
    /\ LET f == Scripts[doc[i]][pos[i] + 1]
           s == StreamCall(i, f, ctx)
       IN /\ ctx' = s.ctxs
          /\ out' = [out EXCEPT ![i] = @ \o s.result]
          /\ last' = [stream |-> i, frame |-> f]
    /\ pos' = [pos EXCEPT ![i] = @ + 1]
    /\ UNCHANGED <<done, doc, nExtra, nReason, upTools, phase>>

StreamOne == StreamStep(1)

StreamTwo == StreamStep(2)

NextIso == StreamOne \/ StreamTwo

SpecIso == InitIso /\ [][NextIso]_vars

\* the stream processed alone: its frames, in order, on a fresh context
RECURSIVE Alone(_, _)
Alone(fs, s) ==
    IF fs = << >> THEN s
    ELSE LET t == OpenAIStreamToClaude(Head(fs), s.ctx)
         IN Alone(Tail(fs), [ctx |-> t.ctx, result |-> s.result \o t.result])

AloneRun(i) ==
    Alone(SubSeq(Scripts[doc[i]], 1, pos[i]),
          [ctx |-> [NewStreamContext EXCEPT !.ModelName = "claude-model"], result |-> << >>])

RespFrame(type, itemType, callID, name, delta) ==
    [data |-> "json", Type |-> type, hasResponse |-> type \in {"response.created",
                                                               "response.completed"},
     ResponseID |-> "resp_1", ItemType |-> itemType, CallID |-> callID, Name |-> name,
     Delta |-> delta]

RespDoneFrame == [RespFrame("", "", "", "", Empty) EXCEPT !.data = "[DONE]"]

RespBadFrame == [RespFrame("", "", "", "", Empty) EXCEPT !.data = "invalid"]

RespNoFrame == [RespFrame("", "", "", "", Empty) EXCEPT !.data = ""]

\* the payload {"type": "error", "error": {"message": ...}}
RespErrorFrame == RespFrame("error", "", "", "", Empty)

\* the [DONE] branch
r2cDone(s) == Emit(closeOpenBlocks(flushThinkTaggedStream(s)), EvMessageStop)

\* case "response.created"
r2cCreated(s, f) ==
    LET s1 == IF f.hasResponse THEN [s EXCEPT !.ctx.MessageID = f.ResponseID] ELSE s
    IN Emit(s1, EvMessageStart(s1.ctx.MessageID, s1.ctx.ModelName))

\* case "response.output_text.delta"
r2cTextDelta(s, f) ==
    consumeThinkTaggedStream(s.ctx.ThinkingBuffer \o f.Delta,
                             [s EXCEPT !.ctx.ThinkingBuffer = Empty])

\* case "response.output_item.added"
r2cItemAdded(s, f) ==
    IF f.ItemType = "function_call"
    THEN LET a == IF s.ctx.ThinkingBlockStarted
                  THEN [Emit(s, EvBlockStop(s.ctx.ThinkingIndex))
                          EXCEPT !.ctx.ThinkingBlockStarted = FALSE]
                  ELSE s
             b == IF a.ctx.ContentBlockStarted
                  THEN [Emit(a, EvBlockStop(a.ctx.ContentIndex))
                          EXCEPT !.ctx.ContentBlockStarted = FALSE,
                                 !.ctx.ContentIndex = @ + 1]
                  ELSE a
             c == [b EXCEPT !.ctx.ToolBlockStarted = TRUE,
                            !.ctx.ToolIndex = b.ctx.ContentIndex,
                            !.ctx.CurrentToolID = f.CallID,
                            !.ctx.CurrentToolName = f.Name,
                            !.ctx.ToolArguments = Empty]
         IN Emit(c, EvBlockStart(c.ctx.ToolIndex, "tool_use", c.ctx.CurrentToolID,
                                 c.ctx.CurrentToolName))
    ELSE s

\* case "response.function_call_arguments.delta"
r2cArgumentsDelta(s, f) ==
    IF s.ctx.ToolBlockStarted
    THEN Emit([s EXCEPT !.ctx.ToolArguments = @ \o f.Delta],
              EvBlockDelta(s.ctx.ToolIndex, "input_json_delta", f.Delta))
    ELSE s

\* case "response.output_item.done"
r2cItemDone(s, f) ==
    IF f.ItemType = "function_call" /\ s.ctx.ToolBlockStarted
    THEN [Emit(s, EvBlockStop(s.ctx.ToolIndex))
            EXCEPT !.ctx.ToolBlockStarted = FALSE,
                   !.ctx.ContentIndex = @ + 1]
    ELSE s

\* case "response.completed": the thinking block still open is closed
r2cCloseThinking(s) ==
    IF s.ctx.ThinkingBlockStarted
    THEN [Emit(s, EvBlockStop(s.ctx.ThinkingIndex))
            EXCEPT !.ctx.ThinkingBlockStarted = FALSE]
    ELSE s

\* case "response.completed": the text block still open is closed
r2cCloseText(s) ==
    IF s.ctx.ContentBlockStarted
    THEN [Emit(s, EvBlockStop(s.ctx.ContentIndex))
            EXCEPT !.ctx.ContentBlockStarted = FALSE]
    ELSE s

\* case "response.completed": stop_reason, then message_delta
r2cMessageDelta(s) ==
    Emit(s, EvMessageDelta(IF s.ctx.ToolIndex > 0 \/ s.ctx.CurrentToolID # ""
                           THEN "tool_use" ELSE "end_turn",
                           [output_tokens |-> 0]))

\* case "response.completed"
r2cCompleted(s) ==
    r2cMessageDelta(r2cCloseText(r2cCloseThinking(flushThinkTaggedStream(s))))

OpenAI2StreamToClaude(f, c) ==
    LET s == [ctx |-> c, result |-> << >>, err |-> ""]
    IN CASE f.data = "[DONE]" -> r2cDone(s)
         [] f.data \in {"", "invalid"} -> s
         [] f.Type = "response.created" -> r2cCreated(s, f)
         [] f.Type = "response.output_text.delta" -> r2cTextDelta(s, f)
         [] f.Type = "response.output_item.added" -> r2cItemAdded(s, f)
         [] f.Type = "response.function_call_arguments.delta" -> r2cArgumentsDelta(s, f)
         [] f.Type = "response.output_item.done" -> r2cItemDone(s, f)
         [] f.Type = "response.completed" -> r2cCompleted(s)
         [] OTHER -> s

(***************************************************************************)
(* The upstream of the Responses -> Claude direction: response.created,    *)
(* then output_text deltas (the content doc, cut at arbitrary offsets),    *)
(* output items added and done (function_call items, and message items,    *)
(* which the transformer ignores), arguments deltas, frames that are not   *)
(* JSON and error payloads, then response.completed and [DONE].            *)
(***************************************************************************)
MaxRespExtra == 3

RespDocs == {DocTextLt, DocUnclosed}

RespBudget(d) == IF d = DocTextLt THEN MaxRespExtra ELSE MaxRespExtra - 2

InitR2C ==
    /\ ctx = [NewStreamContext EXCEPT !.ModelName = "claude-model"]
    /\ out = << >>
    /\ done = FALSE
    /\ last = [frame |-> RespNoFrame, err |-> ""]
    /\ doc \in RespDocs
    /\ pos = 0
    /\ nExtra = 0
    /\ nReason = 0
    /\ upTools = << >>
    /\ phase = "r_init"

DeliverR2C(f) ==
    LET s == OpenAI2StreamToClaude(f, ctx)
    IN /\ ctx' = s.ctx
       /\ out' = out \o s.result
       /\ last' = [frame |-> f, err |-> s.err]

RespCreated ==
    /\ phase = "r_init"
    /\ DeliverR2C(RespFrame("response.created", "", "", "", Empty))
    /\ phase' = "r_open"
    /\ UNCHANGED <<done, doc, pos, nExtra, nReason, upTools>>

RespTextDelta ==
    /\ phase = "r_open"
    /\ \E k \in 1..(Len(doc) - pos) :
        /\ DeliverR2C(RespFrame("response.output_text.delta", "", "", "",
                                SubSeq(doc, pos + 1, pos + k)))
        /\ pos' = pos + k
    /\ UNCHANGED <<done, doc, nExtra, nReason, upTools, phase>>

RespItemAdded ==
    /\ phase = "r_open"
    /\ nExtra < RespBudget(doc)
    /\ \E it \in {"function_call", "message"}, hasCallID \in BOOLEAN :
        LET n == Len(upTools)
            callID == IF hasCallID THEN ToolIDs[n + 1] ELSE ""
        IN /\ it = "message" => hasCallID
           /\ DeliverR2C(IF it = "function_call"
                         THEN RespFrame("response.output_item.added", it,
                                        callID, ToolNames[n + 1], Empty)
                         ELSE RespFrame("response.output_item.added", it, "", "", Empty))
           /\ upTools' = IF it = "function_call"
                         THEN Append(upTools, [id |-> callID,
                                               name |-> ToolNames[n + 1], args |-> Empty])
                         ELSE upTools
    /\ nExtra' = nExtra + 1
    /\ UNCHANGED <<done, doc, pos, nReason, phase>>

RespArgumentsDelta ==
    /\ phase = "r_open"
    /\ nExtra < RespBudget(doc)
    /\ DeliverR2C(RespFrame("response.function_call_arguments.delta", "", "", "",
                            <<Digits[nExtra + 1]>>))
    /\ nExtra' = nExtra + 1
    /\ UNCHANGED <<done, doc, pos, nReason, upTools, phase>>

RespItemDone ==
    /\ phase = "r_open"
    /\ nExtra < RespBudget(doc)
    /\ \E it \in {"function_call", "message"} :
        DeliverR2C(RespFrame("response.output_item.done", it, "", "", Empty))
    /\ nExtra' = nExtra + 1
    /\ UNCHANGED <<done, doc, pos, nReason, upTools, phase>>

\* a frame whose data is not JSON, or an error payload
RespBadOrError ==
    /\ ~done
    /\ nExtra < RespBudget(doc)
    /\ \E f \in {RespBadFrame, RespErrorFrame} : DeliverR2C(f)
    /\ nExtra' = nExtra + 1
    /\ UNCHANGED <<done, doc, pos, nReason, upTools, phase>>

RespCompleted ==
    /\ phase = "r_open"
    /\ DeliverR2C(RespFrame("response.completed", "", "", "", Empty))
    /\ phase' = "r_completed"
    /\ UNCHANGED <<done, doc, pos, nExtra, nReason, upTools>>

RespDone ==
    /\ ~done
    /\ phase # "r_init"
    /\ DeliverR2C(RespDoneFrame)
    /\ done' = TRUE
    /\ phase' = IF phase = "r_completed" THEN "r_end" ELSE "r_cut"
    /\ UNCHANGED <<doc, pos, nExtra, nReason, upTools>>

NextR2C ==
    \/ RespCreated
    \/ RespTextDelta
    \/ RespItemAdded
    \/ RespArgumentsDelta
    \/ RespItemDone
    \/ RespBadOrError
    \/ RespCompleted
    \/ RespDone

SpecR2C == InitR2C /\ [][NextR2C]_vars

\* every content_block_start is followed by a content_block_stop, and the first
\* one that follows it carries its index
StartsStopped(es) ==
    \A p \in 1..Len(es) :
        IsStart(es[p]) =>
            /\ \E j \in (p + 1)..Len(es) : IsStop(es[j])
            /\ LET j == CHOOSE j \in (p + 1)..Len(es) :
                            IsStop(es[j]) /\ \A j2 \in (p + 1)..(j - 1) : ~IsStop(es[j2])
               IN es[j].index = es[p].index

(***************************************************************************)
(* C14 (refuted by the code): when a Responses stream has ended with       *)
(* response.completed and then [DONE], the Claude events form a word of    *)
(* the grammar message_start (content_block_start content_block_delta*     *)
(* content_block_stop)* message_delta? message_stop, so that message_start *)
(* is first and single, every block is stopped before the message_delta,   *)
(* no block starts while another is open and message_stop is last, and     *)
(* each block is stopped with the index it was started with.               *)
(***************************************************************************)
C14_RespGrammarAtDone ==
    phase = "r_end" =>
        /\ GrammarRun("init", out) = "end"
        /\ StartsStopped(out)

(***************************************************************************)
(* C13 (refuted by the code): after a call on a frame whose JSON payload   *)
(* has type "error", the transformer has returned an error.                *)
(***************************************************************************)
C13_ErrorSurfaced ==
    (last.frame.data = "json" /\ last.frame.Type = "error") => last.err # ""

(***************************************************************************)
(* ClaudeStreamToOpenAI2: one call per Claude SSE event; the output is a   *)
(* sequence of Responses events (writeEvent) and the terminator [DONE];    *)
(* err is the returned error ("" is nil).                                  *)
(***************************************************************************)
ClaudeErrorEvent(hasMessage) == [type |-> "error", hasMessage |-> hasMessage]

ClaudeBadEvent(type) == [type |-> type, data |-> "invalid"]

\* case "message_start"
c2rMessageStart(s, ev) ==
    LET s1 == [s EXCEPT !.ctx.MessageID = ev.id, !.ctx.InputTokens = ev.input_tokens]
    IN Emit(s1, [type |-> "response.created", id |-> s1.ctx.MessageID,
                 status |-> "in_progress"])

\* case "content_block_start"
c2rBlockStart(s, ev) ==
    CASE ev.block = "text" ->
            LET s1 == [s EXCEPT !.ctx.ContentBlockStarted = TRUE,
                                !.ctx.ContentIndex = ev.index]
                s2 == Emit(s1, [type |-> "response.output_item.added",
                                output_index |-> ev.index, item |-> "message",
                                status |-> "in_progress"])
            IN Emit(s2, [type |-> "response.content_part.added",
                         output_index |-> ev.index, content_index |-> 0])
      [] ev.block = "tool_use" ->
            LET s1 == [s EXCEPT !.ctx.ToolBlockStarted = TRUE,
                                !.ctx.ToolIndex = ev.index,
                                !.ctx.CurrentToolID = ev.id,
                                !.ctx.CurrentToolName = ev.name]
            IN Emit(s1, [type |-> "response.output_item.added",
                         output_index |-> ev.index, item |-> "function_call",
                         id |-> ev.id, call_id |-> ev.id, name |-> ev.name,
                         arguments |-> Empty, status |-> "in_progress"])
      [] OTHER -> s

\* case "content_block_delta"
c2rBlockDelta(s, ev) ==
    CASE ev.dtype = "text_delta" ->
            Emit(s, [type |-> "response.output_text.delta",
                     output_index |-> s.ctx.ContentIndex, content_index |-> 0,
                     delta |-> ev.text])
      [] ev.dtype = "input_json_delta" ->
            Emit([s EXCEPT !.ctx.ToolArguments = @ \o ev.text],
                 [type |-> "response.function_call_arguments.delta",
                  output_index |-> s.ctx.ToolIndex, delta |-> ev.text])
      [] OTHER -> s

\* a faulty block close that clears the accumulated arguments before reporting them
c2rBlockStop_ClearsFirst(s, ev) ==
    IF s.ctx.ToolBlockStarted /\ ev.index = s.ctx.ToolIndex
    THEN LET s1 == Emit(s, [type |-> "response.function_call_arguments.done",
                            output_index |-> ev.index,
                            arguments |-> Empty])
             s2 == Emit(s1, [type |-> "response.output_item.done",
                             output_index |-> ev.index, item |-> "function_call",
                             id |-> s.ctx.CurrentToolID, call_id |-> s.ctx.CurrentToolID,
                             name |-> s.ctx.CurrentToolName,
                             arguments |-> Empty, status |-> "completed"])
         IN [s2 EXCEPT !.ctx.ToolBlockStarted = FALSE, !.ctx.ToolArguments = Empty]
    ELSE IF s.ctx.ContentBlockStarted /\ ev.index = s.ctx.ContentIndex
    THEN LET s1 == Emit(s, [type |-> "response.output_text.done",
                            output_index |-> ev.index, content_index |-> 0])
             s2 == Emit(s1, [type |-> "response.content_part.done",
                             output_index |-> ev.index, content_index |-> 0])
             s3 == Emit(s2, [type |-> "response.output_item.done",
                             output_index |-> ev.index, item |-> "message",
                             status |-> "completed"])
         IN [s3 EXCEPT !.ctx.ContentBlockStarted = FALSE]
    ELSE s

\* a faulty message_stop case that adds the input tokens twice
c2rMessageStop_DoubleInput(s) ==
    Emit(Emit(s, [type |-> "response.completed", id |-> s.ctx.MessageID,
                  status |-> "completed",
                  input_tokens |-> s.ctx.InputTokens,
                  output_tokens |-> s.ctx.OutputTokens,
                  total_tokens |-> s.ctx.InputTokens + s.ctx.InputTokens]),
         [type |-> "[DONE]"])

\* case "content_block_stop"
c2rBlockStop(s, ev) ==
    IF s.ctx.ToolBlockStarted /\ ev.index = s.ctx.ToolIndex
    THEN LET s1 == Emit(s, [type |-> "response.function_call_arguments.done",
                            output_index |-> ev.index,
                            arguments |-> s.ctx.ToolArguments])
             s2 == Emit(s1, [type |-> "response.output_item.done",
                             output_index |-> ev.index, item |-> "function_call",
                             id |-> s.ctx.CurrentToolID, call_id |-> s.ctx.CurrentToolID,
                             name |-> s.ctx.CurrentToolName,
                             arguments |-> s.ctx.ToolArguments, status |-> "completed"])
         IN [s2 EXCEPT !.ctx.ToolBlockStarted = FALSE, !.ctx.ToolArguments = Empty]
    ELSE IF s.ctx.ContentBlockStarted /\ ev.index = s.ctx.ContentIndex
    THEN LET s1 == Emit(s, [type |-> "response.output_text.done",
                            output_index |-> ev.index, content_index |-> 0])
             s2 == Emit(s1, [type |-> "response.content_part.done",
                             output_index |-> ev.index, content_index |-> 0])
             s3 == Emit(s2, [type |-> "response.output_item.done",
                             output_index |-> ev.index, item |-> "message",
                             status |-> "completed"])
         IN [s3 EXCEPT !.ctx.ContentBlockStarted = FALSE]
    ELSE s

\* case "message_delta"
c2rMessageDelta(s, ev) ==
    IF "output_tokens" \in DOMAIN ev.usage
    THEN [s EXCEPT !.ctx.OutputTokens = ev.usage.output_tokens]
    ELSE s

\* case "message_stop"
c2rMessageStop(s) ==
    Emit(Emit(s, [type |-> "response.completed", id |-> s.ctx.MessageID,
                  status |-> "completed",
                  input_tokens |-> s.ctx.InputTokens,
                  output_tokens |-> s.ctx.OutputTokens,
                  total_tokens |-> s.ctx.InputTokens + s.ctx.OutputTokens]),
         [type |-> "[DONE]"])

\* a faulty handler that lets a frame that is not JSON end the open text item
ClaudeStreamToOpenAI2_BadClosesText(ev, c) ==
    LET s == [ctx |-> c, result |-> << >>, err |-> ""]
    IN IF BadData(ev) THEN [s EXCEPT !.ctx.ContentBlockStarted = FALSE]
       ELSE CASE ev.type = "error" /\ ev.hasMessage -> [s EXCEPT !.err = "upstream error"]
              [] ev.type = "message_start" -> c2rMessageStart(s, ev)
              [] ev.type = "content_block_start" -> c2rBlockStart(s, ev)
              [] ev.type = "content_block_delta" -> c2rBlockDelta(s, ev)
              [] ev.type = "content_block_stop" -> c2rBlockStop(s, ev)
              [] ev.type = "message_delta" -> c2rMessageDelta(s, ev)
              [] ev.type = "message_stop" -> c2rMessageStop(s)
              [] OTHER -> s

ClaudeStreamToOpenAI2(ev, c) ==
    LET s == [ctx |-> c, result |-> << >>, err |-> ""]
    IN CASE BadData(ev) -> s
         [] ev.type = "error" /\ ev.hasMessage -> [s EXCEPT !.err = "upstream error"]
         [] ev.type = "message_start" -> c2rMessageStart(s, ev)
         [] ev.type = "content_block_start" -> c2rBlockStart(s, ev)
         [] ev.type = "content_block_delta" -> c2rBlockDelta(s, ev)
         [] ev.type = "content_block_stop" -> c2rBlockStop(s, ev)
         [] ev.type = "message_delta" -> c2rMessageDelta(s, ev)
         [] ev.type = "message_stop" -> c2rMessageStop(s)
         [] OTHER -> s

(***************************************************************************)
(* Frames that are not JSON, in the four stream transformers: each         *)
(* transformer is fed a stream of its own dialect, and at any point the    *)
(* upstream may send a frame whose data line does not parse.               *)
(***************************************************************************)
\* frames that are not JSON one stream may carry
MaxBadFrames == 2

Dialects == {"chat2claude", "claude2chat", "resp2claude", "claude2resp"}

ChatBadFrame == [DoneFrame EXCEPT !.data = "invalid"]

\* a Claude stream with one text block
ClaudeScriptText ==
    <<[EvMessageStart("msg_1", "claude-model") EXCEPT !.input_tokens = 5],
      EvBlockStart(0, "text", "", ""),
      EvBlockDelta(0, "text_delta", <<"a">>),
      EvBlockDelta(0, "text_delta", <<"b">>),
      EvBlockStop(0),
      EvMessageDelta("end_turn", [output_tokens |-> 9]),
      EvMessageStop>>

\* a Claude stream with a thinking block, a text block and a tool_use block
ClaudeScriptTool ==
    <<[EvMessageStart("msg_1", "claude-model") EXCEPT !.input_tokens = 5],
      EvBlockStart(0, "thinking", "", ""),
      EvBlockDelta(0, "thinking_delta", <<"r">>),
      EvBlockStop(0),
      EvBlockStart(1, "text", "", ""),
      EvBlockDelta(1, "text_delta", <<"a">>),
      EvBlockStop(1),
      EvBlockStart(2, "tool_use", ToolIDs[1], ToolNames[1]),
      EvBlockDelta(2, "input_json_delta", <<"0">>),
      EvBlockDelta(2, "input_json_delta", <<"1">>),
      EvBlockStop(2),
      EvMessageDelta("tool_use", [output_tokens |-> 9]),
      EvMessageStop>>

\* a Responses stream with think-tagged text cut inside the markers
RespScriptText ==
    <<RespFrame("response.created", "", "", "", Empty),
      RespFrame("response.output_text.delta", "", "", "", <<"<", "t", "h", "i">>),
      RespFrame("response.output_text.delta", "", "", "", <<"n", "k", ">", "r", "<">>),
      RespFrame("response.output_text.delta", "", "", "",
                <<"/", "t", "h", "i", "n", "k", ">", "t">>),
      RespFrame("response.completed", "", "", "", Empty),
      RespDoneFrame>>

\* a Responses stream with text and a function call
RespScriptTool ==
    <<RespFrame("response.created", "", "", "", Empty),
      RespFrame("response.output_text.delta", "", "", "", <<"a">>),
      RespFrame("response.output_item.added", "function_call", ToolIDs[1], ToolNames[1],
                Empty),
      RespFrame("response.function_call_arguments.delta", "", "", "", <<"0">>),
      RespFrame("response.output_item.done", "function_call", "", "", Empty),
      RespFrame("response.completed", "", "", "", Empty),
      RespDoneFrame>>

DialectScripts(t) ==
    CASE t = "chat2claude" -> <<ScriptThink, ScriptTools, ScriptMixed>>
      [] t = "resp2claude" -> <<RespScriptText, RespScriptTool>>
      [] OTHER -> <<ClaudeScriptText, ClaudeScriptTool>>

\* the frames that do not parse, per dialect; a Claude frame keeps its event: line
BadFrames(t) ==
    CASE t = "chat2claude" -> {ChatBadFrame}
      [] t = "resp2claude" -> {RespBadFrame}
      [] OTHER -> {ClaudeBadEvent("content_block_stop"), ClaudeBadEvent("message_stop")}

\* one call of the transformer of dialect t: context after, output, error
Transform(t, f, c) ==
    CASE t = "chat2claude" ->
            LET s == OpenAIStreamToClaude(f, c)
            IN [ctx |-> s.ctx, result |-> s.result, err |-> ""]
      [] t = "claude2chat" ->
            LET s == ClaudeStreamToOpenAI(f, c, "gpt-model")
            IN [ctx |-> s.ctx, result |-> s.result, err |-> ""]
      [] t = "resp2claude" -> OpenAI2StreamToClaude(f, c)
      [] t = "claude2resp" -> ClaudeStreamToOpenAI2(f, c)

\* phase is the dialect, doc the script, pos the script frames delivered so far,
\* upTools the positions at which a frame that is not JSON was delivered
InitBad ==
    /\ ctx = [NewStreamContext EXCEPT !.ModelName = "claude-model"]
    /\ out = << >>
    /\ done = FALSE
    /\ last = [bad |-> FALSE, result |-> << >>, err |-> ""]
    /\ phase \in Dialects
    /\ doc \in 1..3
    /\ doc <= Len(DialectScripts(phase))
    /\ pos = 0
    /\ nExtra = 0
    /\ nReason = 0
    /\ upTools = << >>

DeliverBad(f, bad) ==
    LET s == Transform(phase, f, ctx)
    IN /\ ctx' = s.ctx
       /\ out' = out \o s.result
       /\ last' = [bad |-> bad, result |-> s.result, err |-> s.err]

ScriptFrame ==
    /\ pos < Len(DialectScripts(phase)[doc])
    /\ DeliverBad(DialectScripts(phase)[doc][pos + 1], FALSE)
    /\ pos' = pos + 1
    /\ UNCHANGED <<done, doc, nExtra, nReason, upTools, phase>>

InvalidFrame ==
    /\ nExtra < MaxBadFrames
    /\ \E f \in BadFrames(phase) : DeliverBad(f, TRUE)
    /\ nExtra' = nExtra + 1
    /\ upTools' = Append(upTools, pos)
    /\ UNCHANGED <<done, doc, pos, nReason, phase>>

NextBad == ScriptFrame \/ InvalidFrame

SpecBad == InitBad /\ [][NextBad]_vars

\* the stream without the frames that are not JSON
RECURSIVE CleanRun(_, _, _)
CleanRun(t, fs, s) ==
    IF fs = << >> THEN s
    ELSE LET r == Transform(t, Head(fs), s.ctx)
         IN CleanRun(t, Tail(fs), [ctx |-> r.ctx, result |-> s.result \o r.result])

CleanSoFar ==
    CleanRun(phase, SubSeq(DialectScripts(phase)[doc], 1, pos),
             [ctx |-> [NewStreamContext EXCEPT !.ModelName = "claude-model"],
              result |-> << >>])

(***************************************************************************)
(* C12: in each of the four stream transformers a frame whose data is not  *)
(* valid JSON yields no output and no error, and the context and the       *)
(* output of the whole stream are those of the stream without that frame.  *)
(***************************************************************************)
C12_BadFrameDropped ==
    /\ last.bad => last.result = << >> /\ last.err = ""
    /\ out = CleanSoFar.result
    /\ ctx = CleanSoFar.ctx

\* a Claude -> Responses stream that got a bad frame inside its open text block and
\* another one later, and went on to its end
C12_Witness ==
    /\ phase = "claude2resp"
    /\ doc = 1
    /\ upTools = <<3, 5>>
    /\ pos = Len(ClaudeScriptText)
    /\ Len(out) >= 8

(***************************************************************************)
(* Buffered responses towards Claude: splitThinkTaggedText and the two     *)
(* converters that call it, OpenAIRespToClaude and OpenAI2RespToClaude.    *)
(***************************************************************************)
TextBlock(text) == [type |-> "text", text |-> text]

ThinkingBlock(thinking) == [type |-> "thinking", thinking |-> thinking]

\* a faulty splitter that also emits the thinking block of an empty region
RECURSIVE splitThinkTaggedText_KeepEmpty(_)
splitThinkTaggedText_KeepEmpty(text) ==
    LET openIdx == Index(text, thinkTagOpen)
    IN IF openIdx = -1
       THEN (IF text # Empty THEN <<TextBlock(text)>> ELSE << >>)
       ELSE LET pre == IF openIdx > 0 THEN <<TextBlock(UpTo(text, openIdx))>> ELSE << >>
                rest == From(text, openIdx + Len(thinkTagOpen))
                closeIdx == Index(rest, thinkTagClose)
            IN IF closeIdx = -1
               THEN pre \o (IF rest # Empty THEN <<TextBlock(rest)>> ELSE << >>)
               ELSE pre \o <<ThinkingBlock(UpTo(rest, closeIdx))>>
                        \o splitThinkTaggedText_KeepEmpty(
                               From(rest, closeIdx + Len(thinkTagClose)))

\* a faulty splitter that emits what follows an unclosed <think> as thinking
RECURSIVE splitThinkTaggedText_UnclosedAsThinking(_)
splitThinkTaggedText_UnclosedAsThinking(text) ==
    LET openIdx == Index(text, thinkTagOpen)
    IN IF openIdx = -1
       THEN (IF text # Empty THEN <<TextBlock(text)>> ELSE << >>)
       ELSE LET pre == IF openIdx > 0 THEN <<TextBlock(UpTo(text, openIdx))>> ELSE << >>
                rest == From(text, openIdx + Len(thinkTagOpen))
                closeIdx == Index(rest, thinkTagClose)
            IN IF closeIdx = -1
               THEN pre \o (IF rest # Empty THEN <<ThinkingBlock(rest)>> ELSE << >>)
               ELSE pre \o (IF closeIdx > 0 THEN <<ThinkingBlock(UpTo(rest, closeIdx))>>
                                            ELSE << >>)
                        \o splitThinkTaggedText_UnclosedAsThinking(
                               From(rest, closeIdx + Len(thinkTagClose)))

\* splitThinkTaggedText: the blocks appended, in order (none: the nil slice)
RECURSIVE splitThinkTaggedText(_)
splitThinkTaggedText(text) ==
    LET openIdx == Index(text, thinkTagOpen)
    IN IF openIdx = -1
       THEN (IF text # Empty THEN <<TextBlock(text)>> ELSE << >>)
       ELSE LET pre == IF openIdx > 0 THEN <<TextBlock(UpTo(text, openIdx))>> ELSE << >>
                rest == From(text, openIdx + Len(thinkTagOpen))
                closeIdx == Index(rest, thinkTagClose)
            IN IF closeIdx = -1
               THEN pre \o (IF rest # Empty THEN <<TextBlock(rest)>> ELSE << >>)
               ELSE pre \o (IF closeIdx > 0 THEN <<ThinkingBlock(UpTo(rest, closeIdx))>>
                                            ELSE << >>)
                        \o splitThinkTaggedText(From(rest, closeIdx + Len(thinkTagClose)))

\* a Go slice: nil or not, and its elements
NilSlice == [isNil |-> TRUE, elems |-> << >>]

MakeSlice == [isNil |-> FALSE, elems |-> << >>]

\* append(sl, elems...)
GoAppend(sl, elems) ==
    [isNil |-> sl.isNil /\ elems = << >>, elems |-> sl.elems \o elems]

\* the arguments strings an upstream sends: a JSON object, a JSON value that is
\* not an object, and text that is not JSON
ArgsObject == "{\"a\":1}"

ArgsArray == "[1]"

ArgsBroken == "{\"a\":"

\* var args map[string]interface{}; json.Unmarshal([]byte(arguments), &args):
\* the map stays nil unless the string is a JSON object
UnmarshalArgs(arguments) ==
    IF arguments = ArgsObject THEN [isNil |-> FALSE, fields |-> {<<"a", 1>>}]
    ELSE [isNil |-> TRUE, fields |-> {}]

ToolUseBlock(id, name, input) ==
    [type |-> "tool_use", id |-> id, name |-> name, input |-> input]

\* for _, tc := range choice.Message.ToolCalls
RECURSIVE o2cToolCalls(_, _)
o2cToolCalls(r, tcs) ==
    IF tcs = << >> THEN r
    ELSE LET tc == Head(tcs)
             b == ToolUseBlock(tc.ID, tc.Name, UnmarshalArgs(tc.Arguments))
         IN o2cToolCalls([content |-> GoAppend(r.content, <<b>>),
                          stop_reason |-> "tool_use"],
                         Tail(tcs))

\* a faulty converter that starts from a nil content slice
OpenAIRespToClaude_NilContent(resp) ==
    LET r0 == [content |-> NilSlice, stop_reason |-> "end_turn"]
        r == IF Len(resp.Choices) > 0
             THEN LET choice == resp.Choices[1]
                      r1 == [r0 EXCEPT !.content =
                                GoAppend(@, splitThinkTaggedText(choice.Content))]
                  IN o2cToolCalls(r1, choice.ToolCalls)
             ELSE r0
    IN [id |-> resp.ID, type |-> "message", role |-> "assistant",
        content |-> r.content,
        model |-> resp.Model, stop_reason |-> r.stop_reason,
        input_tokens |-> resp.PromptTokens, output_tokens |-> resp.CompletionTokens]

\* OpenAIRespToClaude on a response that parses; json.Marshal writes content as
\* null when the slice is nil and as an array otherwise
OpenAIRespToClaude(resp) ==
    LET r0 == [content |-> MakeSlice, stop_reason |-> "end_turn"]
        r == IF Len(resp.Choices) > 0
             THEN LET choice == resp.Choices[1]
                      r1 == IF choice.Content # Empty
                            THEN [r0 EXCEPT !.content =
                                     GoAppend(@, splitThinkTaggedText(choice.Content))]
                            ELSE r0
                  IN o2cToolCalls(r1, choice.ToolCalls)
             ELSE r0
    IN [id |-> resp.ID, type |-> "message", role |-> "assistant",
        content |-> r.content,
        model |-> resp.Model, stop_reason |-> r.stop_reason,
        input_tokens |-> resp.PromptTokens, output_tokens |-> resp.CompletionTokens]

\* for _, part := range item.Content
RECURSIVE r2cParts(_, _)
r2cParts(r, parts) ==
    IF parts = << >> THEN r
    ELSE r2cParts(IF Head(parts).Type = "output_text"
                  THEN [r EXCEPT !.content =
                           GoAppend(@, splitThinkTaggedText(Head(parts).Text))]
                  ELSE r,
                  Tail(parts))

\* for _, item := range resp.Output
RECURSIVE r2cItems(_, _)
r2cItems(r, items) ==
    IF items = << >> THEN r
    ELSE LET item == Head(items)
             r1 == CASE item.Type = "message" -> r2cParts(r, item.Content)
                     [] item.Type = "function_call" ->
                           [content |-> GoAppend(r.content,
                                <<ToolUseBlock(item.CallID, item.Name,
                                               UnmarshalArgs(item.Arguments))>>),
                            stop_reason |-> "tool_use"]
                     [] OTHER -> r
         IN r2cItems(r1, Tail(items))

\* OpenAI2RespToClaude on a response that parses
OpenAI2RespToClaude(resp) ==
    LET r == r2cItems([content |-> NilSlice, stop_reason |-> "end_turn"], resp.Output)
    IN [id |-> resp.ID, type |-> "message", role |-> "assistant",
        content |-> r.content,
        stop_reason |-> r.stop_reason,
        input_tokens |-> resp.InputTokens, output_tokens |-> resp.OutputTokens]

(***************************************************************************)
(* The upstream's buffered response: a content string built from marker    *)
(* and text tokens, tool calls, a finish reason, and zero, one or two      *)
(* choices; the same content and calls delivered as a Responses body.      *)
(***************************************************************************)
\* tokens in one content string
MaxTokens == 4
\* tool calls in one response
MaxRespTools == 2

ContentTokens == {thinkTagOpen, thinkTagClose, <<"a">>, <<"<">>}

RECURSIVE Flatten(_)
Flatten(ss) == IF ss = << >> THEN Empty ELSE Head(ss) \o Flatten(Tail(ss))

DocExample ==
    Flatten(<<<<"A">>, thinkTagOpen, <<"X">>, thinkTagClose, <<"B">>, thinkTagOpen,
              <<"Y">>, thinkTagClose, <<"C">>>>)

Contents ==
    {DocExample} \cup
    UNION {{Flatten(ts) : ts \in [1..n -> ContentTokens]} : n \in 0..MaxTokens}

ChatToolCall(i, arguments) ==
    [ID |-> ToolIDs[i], Name |-> ToolNames[i], Arguments |-> arguments]

ToolCallSeqs ==
    UNION {[1..n -> {ChatToolCall(1, ArgsObject), ChatToolCall(2, ArgsBroken)}] :
              n \in 0..MaxRespTools}

FinishReasons == <<"stop", "tool_calls", "length">>

ChatChoice(content, tcs, fin) ==
    [Content |-> content, ToolCalls |-> tcs, FinishReason |-> fin]

\* n choices: the first carries the content and the calls, a second one a call
ChatResponse(n, content, tcs, fin) ==
    [ID |-> "chatcmpl-1", Model |-> "gpt-model",
     Choices |-> SubSeq(<<ChatChoice(content, tcs, fin),
                          ChatChoice(<<"z">>, <<ChatToolCall(3, ArgsArray)>>,
                                     "tool_calls")>>, 1, n),
     PromptTokens |-> 5, CompletionTokens |-> 7]

RespFunctionCall(tc) ==
    [Type |-> "function_call", Content |-> << >>, CallID |-> tc.ID, Name |-> tc.Name,
     Arguments |-> tc.Arguments]

RECURSIVE RespFunctionCalls(_)
RespFunctionCalls(tcs) ==
    IF tcs = << >> THEN << >>
    ELSE <<RespFunctionCall(Head(tcs))>> \o RespFunctionCalls(Tail(tcs))

\* a reasoning item, a message item with a refusal part and the content as an
\* output_text part (no message item when n = 0), then the function calls
Responses(n, content, tcs) ==
    [ID |-> "resp_1",
     Output |-> <<[Type |-> "reasoning", Content |-> << >>, CallID |-> "", Name |-> "",
                   Arguments |-> ""]>>
                \o (IF n = 0 THEN << >>
                    ELSE <<[Type |-> "message",
                            Content |-> <<[Type |-> "refusal", Text |-> <<"n", "o">>],
                                          [Type |-> "output_text", Text |-> content]>>,
                            CallID |-> "", Name |-> "", Arguments |-> ""]>>)
                \o RespFunctionCalls(tcs),
     InputTokens |-> 5, OutputTokens |-> 7]

\* doc is the content, upTools the tool calls, nReason the finish reason, nExtra
\* the number of choices; out is the converted response
InitBuf ==
    /\ ctx = NewStreamContext
    /\ out = << >>
    /\ done = FALSE
    /\ last = << >>
    /\ doc \in Contents
    /\ pos = 0
    /\ nExtra \in 0..2
    /\ nReason \in 1..Len(FinishReasons)
    /\ upTools \in ToolCallSeqs
    /\ phase = "b_input"

BufferedChat ==
    /\ phase = "b_input"
    /\ last' = ChatResponse(nExtra, doc, upTools, FinishReasons[nReason])
    /\ out' = OpenAIRespToClaude(last')
    /\ phase' = "b_chat"
    /\ UNCHANGED <<ctx, done, doc, pos, nExtra, nReason, upTools>>

BufferedResponses ==
    /\ phase = "b_input"
    /\ last' = Responses(nExtra, doc, upTools)
    /\ out' = OpenAI2RespToClaude(last')
    /\ phase' = "b_responses"
    /\ UNCHANGED <<ctx, done, doc, pos, nExtra, nReason, upTools>>

NextBuf == BufferedChat \/ BufferedResponses

SpecBuf == InitBuf /\ [][NextBuf]_vars

\* the text and thinking blocks of a converted response, in order
SplitBlocks(r) ==
    SelectSeq(r.content.elems, LAMBDA b : b.type \in {"text", "thinking"})

BlockValue(b) == IF b.type = "text" THEN b.text ELSE b.thinking

RECURSIVE ConcatValues(_)
ConcatValues(bs) ==
    IF bs = << >> THEN Empty ELSE BlockValue(Head(bs)) \o ConcatValues(Tail(bs))

\* the content the converter splits: the first choice's, or the output_text part's
SplitInput == IF nExtra = 0 THEN Empty ELSE doc

(***************************************************************************)
(* C15: the blocks made from a content string are text or thinking blocks  *)
(* with non-empty values, in left-to-right order (their values,            *)
(* concatenated, are the content without the markers of its regions);      *)
(* every thinking block is a region enclosed in <think> and </think> and   *)
(* holds no </think>, every text block before another block holds no       *)
(* <think>; the example yields text A, thinking X, text B, thinking Y,     *)
(* text C; Chat message content and Responses output_text parts are split  *)
(* alike.                                                                  *)
(***************************************************************************)
C15_SplitBlocks ==
    phase \in {"b_chat", "b_responses"} =>
        LET bs == SplitBlocks(out)
        IN /\ bs = splitThinkTaggedText(SplitInput)
           /\ \A i \in 1..Len(bs) : BlockValue(bs[i]) # Empty
           /\ ConcatValues(bs) = StripMarkers(SplitInput, FALSE)
           /\ \A i \in 1..Len(bs) :
                 /\ bs[i].type = "thinking" =>
                       /\ ~Contains(bs[i].thinking, thinkTagClose)
                       /\ Contains(SplitInput,
                                   thinkTagOpen \o bs[i].thinking \o thinkTagClose)
                 /\ bs[i].type = "text" /\ i < Len(bs) =>
                       ~Contains(bs[i].text, thinkTagOpen)
           /\ SplitInput = DocExample =>
                 bs = <<TextBlock(<<"A">>), ThinkingBlock(<<"X">>), TextBlock(<<"B">>),
                        ThinkingBlock(<<"Y">>), TextBlock(<<"C">>)>>

\* the example, converted from a Responses body
C15_Witness ==
    /\ phase = "b_responses"
    /\ doc = DocExample
    /\ nExtra = 1
    /\ Len(SplitBlocks(out)) = 5

\* the first choice's message of the Chat response just converted has a tool call
FirstChoiceHasToolCall ==
    /\ Len(last.Choices) > 0
    /\ Len(last.Choices[1].ToolCalls) > 0

\* the first choice's message has no content
FirstChoiceNoText == Len(last.Choices) = 0 \/ last.Choices[1].Content = Empty

(***************************************************************************)
(* C19: OpenAIRespToClaude returns stop_reason tool_use exactly when the   *)
(* first choice's message has a tool call and end_turn otherwise, whatever *)
(* the finish_reason; content is marshalled as an array, never null, and   *)
(* is the empty array when there is no text and no tool call.              *)
(***************************************************************************)
C19_StopReasonAndContent ==
    phase = "b_chat" =>
        /\ out.stop_reason = (IF FirstChoiceHasToolCall THEN "tool_use" ELSE "end_turn")
        /\ ~out.content.isNil
        /\ (FirstChoiceNoText /\ ~FirstChoiceHasToolCall) => out.content.elems = << >>
        /\ FirstChoiceHasToolCall => out.content.elems # << >>

\* finish_reason tool_calls and a second choice with a tool call, but neither text
\* nor a tool call in the first choice: end_turn and the empty array
C19_Witness ==
    /\ phase = "b_chat"
    /\ nExtra = 2
    /\ doc = Empty
    /\ upTools = << >>
    /\ FinishReasons[nReason] = "tool_calls"
    /\ out.stop_reason = "end_turn"
    /\ out.content = MakeSlice

(***************************************************************************)
(* ClaudeReqToOpenAI: a Claude request to a Chat request.  A JSON value    *)
(* that the code type-asserts is a record of its kind and its value.       *)
(***************************************************************************)
\* a JSON string used as an identifier (id, name, tool_use_id)
IdStr(v) == [kind |-> "string", v |-> v]

\* the key is absent
IdMissing == [kind |-> "missing", v |-> ""]

\* the key holds a number
IdNumber == [kind |-> "number", v |-> ""]

\* a JSON string used as text
Str(v) == [kind |-> "string", v |-> v, parts |-> << >>]

\* absent or null
Nil == [kind |-> "nil", v |-> Empty, parts |-> << >>]

Number == [kind |-> "number", v |-> Empty, parts |-> << >>]

\* an array of content parts
Arr(parts) == [kind |-> "array", v |-> Empty, parts |-> parts]

\* a JSON object held in a map[string]interface{}
JsonObject == [isNil |-> FALSE, fields |-> {<<"a", 1>>}]

JsonNil == [isNil |-> TRUE, fields |-> {}]

ClaudeBlock(type, text, id, name, input, tool_use_id, content) ==
    [type |-> type, text |-> text, id |-> id, name |-> name, input |-> input,
     tool_use_id |-> tool_use_id, content |-> content]

BlockText(text) == ClaudeBlock("text", text, IdMissing, IdMissing, JsonNil, IdMissing, Nil)

BlockThinking == ClaudeBlock("thinking", Nil, IdMissing, IdMissing, JsonNil, IdMissing, Nil)

BlockToolUse(id, name, input) ==
    ClaudeBlock("tool_use", Nil, id, name, input, IdMissing, Nil)

BlockToolResult(tool_use_id, content) ==
    ClaudeBlock("tool_result", Nil, IdMissing, IdMissing, JsonNil, tool_use_id, content)

\* an element of the content array that is not an object
BlockNotMap == ClaudeBlock("", Nil, IdMissing, IdMissing, JsonNil, IdMissing, Nil)

\* a part of a tool_result's content array
ResultPart(type, text) == [type |-> type, text |-> text]

\* strings.Join(parts, sep)
RECURSIVE Join(_, _)
Join(parts, sep) ==
    IF parts = << >> THEN Empty
    ELSE IF Len(parts) = 1 THEN parts[1]
    ELSE parts[1] \o sep \o Join(Tail(parts), sep)

RECURSIVE resultTextParts(_)
resultTextParts(arr) ==
    IF arr = << >> THEN << >>
    ELSE (IF Head(arr).type = "text" /\ Head(arr).text.kind = "string"
          THEN <<Head(arr).text.v>> ELSE << >>) \o resultTextParts(Tail(arr))

\* a faulty flattening that keeps only the first text part
extractToolResultContent_FirstPart(content) ==
    CASE content.kind = "string" -> content.v
      [] content.kind = "array" ->
            LET ps == resultTextParts(content.parts)
            IN IF ps = << >> THEN Empty ELSE ps[1]
      [] OTHER -> Empty

extractToolResultContent(content) ==
    CASE content.kind = "string" -> content.v
      [] content.kind = "array" -> Join(resultTextParts(content.parts), <<"\n">>)
      [] OTHER -> Empty

\* json.Marshal(m["input"])
MarshalInput(input) == IF input.isNil THEN "null" ELSE ArgsObject

OpenAIMessage(role, content, toolCalls, toolCallID) ==
    [Role |-> role, Content |-> content, ToolCalls |-> toolCalls,
     ToolCallID |-> toolCallID]

\* the message's Content interface: nil, or a string
NoContent == [isNil |-> TRUE, v |-> Empty]

StrContent(v) == [isNil |-> FALSE, v |-> v]

ThinkingPlaceholder == <<"(", "t", "h", "i", "n", "k", "i", "n", "g", ".", ".", ".", ")">>

\* the locals of one pass over a content array
NoParts == [textParts |-> << >>, toolCalls |-> << >>, toolResults |-> << >>,
            hasThinking |-> FALSE]

\* a faulty case that accepts a tool_use block whatever its id and name
c2qToolUse_KeepInvalid(a, m) ==
    [a EXCEPT !.toolCalls =
        Append(@, [ID |-> m.id.v, Type |-> "function", Name |-> m.name.v,
                   Arguments |-> MarshalInput(m.input)])]

\* case "tool_use"
c2qToolUse(a, m) ==
    IF m.id.kind # "string" \/ m.id.v = "" THEN a
    ELSE IF m.name.kind # "string" \/ m.name.v = "" THEN a
    ELSE [a EXCEPT !.toolCalls =
             Append(@, [ID |-> m.id.v, Type |-> "function", Name |-> m.name.v,
                        Arguments |-> MarshalInput(m.input)])]

\* case "tool_result"
c2qToolResult(a, m) ==
    IF m.tool_use_id.kind # "string" \/ m.tool_use_id.v = "" THEN a
    ELSE [a EXCEPT !.toolResults =
             Append(@, OpenAIMessage("tool",
                                     StrContent(extractToolResultContent(m.content)),
                                     << >>, m.tool_use_id.v))]

\* for _, block := range content
RECURSIVE c2qBlocks(_, _)
c2qBlocks(a, blocks) ==
    IF blocks = << >> THEN a
    ELSE LET m == Head(blocks)
             a1 == CASE m.type = "text" ->
                          (IF m.text.kind = "string"
                           THEN [a EXCEPT !.textParts = Append(@, m.text.v)] ELSE a)
                     [] m.type = "thinking" -> [a EXCEPT !.hasThinking = TRUE]
                     [] m.type = "tool_use" -> c2qToolUse(a, m)
                     [] m.type = "tool_result" -> c2qToolResult(a, m)
                     [] OTHER -> a
         IN c2qBlocks(a1, Tail(blocks))

\* a faulty loop body that emits nothing for a message of thinking blocks only
c2qMessage_NoPlaceholder(msg) ==
    CASE msg.Content.kind = "string" ->
            <<OpenAIMessage(msg.Role, StrContent(msg.Content.v), << >>, "")>>
      [] msg.Content.kind = "array" ->
            LET a == c2qBlocks(NoParts, msg.Content.parts)
                main == IF Len(a.textParts) > 0 \/ Len(a.toolCalls) > 0
                        THEN <<OpenAIMessage(msg.Role,
                                   IF Len(a.textParts) > 0
                                   THEN StrContent(Join(a.textParts, Empty))
                                   ELSE NoContent,
                                   a.toolCalls, "")>>
                        ELSE << >>
            IN main \o a.toolResults
      [] OTHER -> << >>

\* the body of "for _, msg := range req.Messages": the messages appended
c2qMessage(msg) ==
    CASE msg.Content.kind = "string" ->
            <<OpenAIMessage(msg.Role, StrContent(msg.Content.v), << >>, "")>>
      [] msg.Content.kind = "array" ->
            LET a == c2qBlocks(NoParts, msg.Content.parts)
                main == IF Len(a.textParts) > 0 \/ Len(a.toolCalls) > 0
                        THEN <<OpenAIMessage(msg.Role,
                                   IF Len(a.textParts) > 0
                                   THEN StrContent(Join(a.textParts, Empty))
                                   ELSE NoContent,
                                   a.toolCalls, "")>>
                        ELSE IF a.hasThinking /\ msg.Role = "assistant"
                        THEN <<OpenAIMessage("assistant", StrContent(ThinkingPlaceholder),
                                             << >>, "")>>
                        ELSE << >>
            IN main \o a.toolResults
      [] OTHER -> << >>

RECURSIVE c2qMessages(_)
c2qMessages(msgs) ==
    IF msgs = << >> THEN << >> ELSE c2qMessage(Head(msgs)) \o c2qMessages(Tail(msgs))

RECURSIVE c2qTools(_)
c2qTools(tools) ==
    IF tools = << >> THEN << >>
    ELSE <<[Type |-> "function", Name |-> Head(tools).Name,
            Description |-> Head(tools).Description,
            Parameters |-> Head(tools).InputSchema]>> \o c2qTools(Tail(tools))

\* tool_choice of the Chat request: "" when the field is left unset
c2qToolChoice(req) ==
    IF Len(req.Tools) = 0 THEN [kind |-> "unset", v |-> "", name |-> ""]
    ELSE CASE req.ToolChoice.kind = "nil" -> [kind |-> "string", v |-> "auto", name |-> ""]
           [] req.ToolChoice.kind = "string" ->
                 [kind |-> "string", v |-> req.ToolChoice.v, name |-> ""]
           [] req.ToolChoice.kind = "map" ->
                 (CASE req.ToolChoice.v = "tool" /\ req.ToolChoice.name.kind = "string" ->
                          [kind |-> "function", v |-> "function",
                           name |-> req.ToolChoice.name.v]
                    [] req.ToolChoice.v = "any" ->
                          [kind |-> "string", v |-> "required", name |-> ""]
                    [] req.ToolChoice.v = "auto" ->
                          [kind |-> "string", v |-> "auto", name |-> ""]
                    [] OTHER -> [kind |-> "unset", v |-> "", name |-> ""])
           [] OTHER -> [kind |-> "unset", v |-> "", name |-> ""]

\* ClaudeReqToOpenAI on a request that parses and has no system prompt; a zero
\* MaxCompletionTokens and a nil Temperature are omitted from the JSON
ClaudeReqToOpenAI(req, model) ==
    [Model |-> model,
     Messages |-> c2qMessages(req.Messages),
     Stream |-> req.Stream,
     MaxCompletionTokens |-> IF req.MaxTokens > 0 THEN req.MaxTokens ELSE 0,
     Temperature |-> IF req.Temperature > 0
                     THEN [isNil |-> FALSE, v |-> req.Temperature]
                     ELSE [isNil |-> TRUE, v |-> 0],
     Tools |-> c2qTools(req.Tools),
     ToolChoice |-> c2qToolChoice(req),
     IncludeUsage |-> req.Stream]

(***************************************************************************)
(* The Claude requests converted: conversations of at most MaxMessages     *)
(* messages, made of the three messages of a tool exchange (a user string, *)
(* an assistant tool_use, a user tool_result) and at most one message with *)
(* an arbitrary content: any role, up to MaxBlocks blocks of any kind,     *)
(* valid or not, or a content that is neither a string nor an array.       *)
(***************************************************************************)
MaxMessages == 3

MaxBlocks == 2

ContentBlocks ==
    {BlockText(Str(<<"a">>)),
     BlockText(Number),
     BlockThinking,
     BlockToolUse(IdStr(ToolIDs[2]), IdStr(ToolNames[2]), JsonNil),
     BlockToolUse(IdMissing, IdStr(ToolNames[2]), JsonObject),
     BlockToolUse(IdStr(ToolIDs[2]), IdStr(""), JsonObject),
     BlockToolUse(IdNumber, IdNumber, JsonObject),
     BlockToolResult(IdStr(ToolIDs[2]),
                     Arr(<<ResultPart("text", Str(<<"x">>)), ResultPart("image", Nil),
                           ResultPart("text", Number), ResultPart("text", Str(<<"y">>))>>)),
     BlockToolResult(IdStr(""), Str(<<"b", "a", "d">>)),
     BlockToolResult(IdNumber, Nil),
     BlockNotMap}

ClaudeMessage(role, content) == [Role |-> role, Content |-> content]

MsgUserText == ClaudeMessage("user", Str(<<"h", "i">>))

MsgAssistantToolUse ==
    ClaudeMessage("assistant",
                  Arr(<<BlockToolUse(IdStr(ToolIDs[1]), IdStr(ToolNames[1]), JsonObject)>>))

MsgUserToolResult ==
    ClaudeMessage("user", Arr(<<BlockToolResult(IdStr(ToolIDs[1]), Str(<<"o", "k">>))>>))

ExchangeMessages == {MsgUserText, MsgAssistantToolUse, MsgUserToolResult}

FreeMessages ==
    {ClaudeMessage(r, c) :
        r \in {"user", "assistant"},
        c \in {Number} \cup
              UNION {{Arr(bs) : bs \in [1..n -> ContentBlocks]} : n \in 0..MaxBlocks}}

ClaudeRequest(msgs) ==
    [Model |-> "claude-model", Messages |-> msgs, MaxTokens |-> 1024, Temperature |-> 0,
     Stream |-> FALSE, Tools |-> << >>,
     ToolChoice |-> [kind |-> "nil", v |-> "", name |-> IdMissing]]

\* doc is the request the client assembles, nExtra the number of its messages
\* with an arbitrary content, out the converted request, last the error returned
InitReq ==
    /\ ctx = NewStreamContext
    /\ out = << >>
    /\ done = FALSE
    /\ last = ""
    /\ doc = ClaudeRequest(<< >>)
    /\ pos = 0
    /\ nExtra = 0
    /\ nReason = 0
    /\ upTools = << >>
    /\ phase = "q_build"

AddMessage(m) ==
    /\ phase = "q_build"
    /\ Len(doc.Messages) < MaxMessages
    /\ doc' = [doc EXCEPT !.Messages = Append(@, m)]

AddExchangeMessage ==
    /\ \E m \in ExchangeMessages : AddMessage(m)
    /\ UNCHANGED <<ctx, out, done, last, pos, nExtra, nReason, upTools, phase>>

AddFreeMessage ==
    /\ nExtra = 0
    /\ \E m \in FreeMessages : AddMessage(m)
    /\ nExtra' = 1
    /\ UNCHANGED <<ctx, out, done, last, pos, nReason, upTools, phase>>

ConvertRequest ==
    /\ phase = "q_build"
    /\ out' = ClaudeReqToOpenAI(doc, "gpt-model")
    /\ last' = "nil"
    /\ phase' = "q_done"
    /\ UNCHANGED <<ctx, done, doc, pos, nExtra, nReason, upTools>>

NextReq == AddExchangeMessage \/ AddFreeMessage \/ ConvertRequest

SpecReq == InitReq /\ [][NextReq]_vars

\* the blocks of a message's content array
BlocksOf(msg) == IF msg.Content.kind = "array" THEN msg.Content.parts ELSE << >>

RECURSIVE AllBlocks(_)
AllBlocks(msgs) ==
    IF msgs = << >> THEN << >> ELSE BlocksOf(Head(msgs)) \o AllBlocks(Tail(msgs))

IsNonEmptyString(x) == x.kind = "string" /\ x.v # ""

ValidToolUse(b) ==
    b.type = "tool_use" /\ IsNonEmptyString(b.id) /\ IsNonEmptyString(b.name)

ValidToolResult(b) == b.type = "tool_result" /\ IsNonEmptyString(b.tool_use_id)

InvalidToolBlock(b) ==
    \/ b.type = "tool_use" /\ ~ValidToolUse(b)
    \/ b.type = "tool_result" /\ ~ValidToolResult(b)

\* the text of a tool result: the string, or the string text parts of the array,
\* one per line
FlatText(content) ==
    IF content.kind = "string" THEN content.v
    ELSE IF content.kind # "array" THEN Empty
    ELSE LET ts == SelectSeq(content.parts,
                             LAMBDA q : q.type = "text" /\ q.text.kind = "string")
         IN Flatten([i \in 1..Len(ts) |->
                        IF i = 1 THEN ts[i].text.v ELSE <<"\n">> \o ts[i].text.v])

RECURSIVE AllToolCalls(_)
AllToolCalls(ms) ==
    IF ms = << >> THEN << >> ELSE Head(ms).ToolCalls \o AllToolCalls(Tail(ms))

\* the Chat messages made from the k-th Claude message: what converting the first
\* k messages adds to converting the first k - 1
Segment(k) ==
    LET before == ClaudeReqToOpenAI(ClaudeRequest(SubSeq(doc.Messages, 1, k - 1)),
                                    "gpt-model").Messages
        upto == ClaudeReqToOpenAI(ClaudeRequest(SubSeq(doc.Messages, 1, k)),
                                  "gpt-model").Messages
    IN SubSeq(upto, Len(before) + 1, Len(upto))

RECURSIVE Segments(_)
Segments(k) == IF k = 0 THEN << >> ELSE Segments(k - 1) \o Segment(k)

Converted == phase = "q_done"

(***************************************************************************)
(* C16: the Chat messages come in the order of the Claude messages they    *)
(* are made from; the valid tool_use blocks of a message are, in order and *)
(* with their ids and names, the tool_calls of the one message of that     *)
(* role made from it; its valid tool_result blocks are, in order, role=tool*)
(* messages after it, with tool_call_id = tool_use_id and the flattened    *)
(* result text as content; user text, assistant tool_use, user tool_result *)
(* yields exactly three messages user, assistant, tool.                    *)
(***************************************************************************)
C16_ToolBlocksMapped ==
    Converted =>
        /\ out.Messages = Segments(Len(doc.Messages))
        /\ \A k \in 1..Len(doc.Messages) :
              LET msg == doc.Messages[k]
                  uses == SelectSeq(BlocksOf(msg), ValidToolUse)
                  results == SelectSeq(BlocksOf(msg), ValidToolResult)
                  seg == Segment(k)
                  tools == SelectSeq(seg, LAMBDA m : m.Role = "tool")
                  mains == SelectSeq(seg, LAMBDA m : m.Role # "tool")
              IN /\ Len(mains) <= 1
                 /\ mains # << >> => seg[1] = mains[1] /\ mains[1].Role = msg.Role
                 /\ [i \in 1..Len(AllToolCalls(seg)) |->
                        <<AllToolCalls(seg)[i].ID, AllToolCalls(seg)[i].Name>>]
                    = [i \in 1..Len(uses) |-> <<uses[i].id.v, uses[i].name.v>>]
                 /\ uses # << >> => Len(mains) = 1 /\ Len(mains[1].ToolCalls) = Len(uses)
                 /\ [i \in 1..Len(tools) |->
                        <<tools[i].ToolCallID, tools[i].Content, tools[i].ToolCalls>>]
                    = [i \in 1..Len(results) |->
                          <<results[i].tool_use_id.v,
                            StrContent(FlatText(results[i].content)), << >>>>]
        /\ doc.Messages = <<MsgUserText, MsgAssistantToolUse, MsgUserToolResult>> =>
              /\ Len(out.Messages) = 3
              /\ out.Messages[1] = OpenAIMessage("user", StrContent(<<"h", "i">>), << >>, "")
              /\ out.Messages[2].Role = "assistant"
              /\ Len(out.Messages[2].ToolCalls) = 1
              /\ out.Messages[2].ToolCalls[1].ID = ToolIDs[1]
              /\ out.Messages[2].ToolCalls[1].Name = ToolNames[1]
              /\ out.Messages[3] = OpenAIMessage("tool", StrContent(<<"o", "k">>), << >>,
                                                 ToolIDs[1])

\* the tool exchange followed by a user message with a text block and a tool result
\* whose content is an array of parts
C16_Witness ==
    /\ phase = "q_done"
    /\ Len(doc.Messages) = 3
    /\ SubSeq(doc.Messages, 1, 2) = <<MsgUserText, MsgAssistantToolUse>>
    /\ doc.Messages[3].Role = "user"
    /\ Len(BlocksOf(doc.Messages[3])) = 2
    /\ BlocksOf(doc.Messages[3])[1].type = "tool_result"
    /\ BlocksOf(doc.Messages[3])[1].content.kind = "array"
    /\ BlocksOf(doc.Messages[3])[2] = BlockText(Str(<<"a">>))
    /\ Len(out.Messages) = 4
    /\ out.Messages[4].Role = "tool"
    /\ out.Messages[4].Content = StrContent(<<"x", "\n", "y">>)

\* the roles of the Claude messages, and of the Chat messages that are not
\* role=tool messages
RolesIn == [i \in 1..Len(doc.Messages) |-> doc.Messages[i].Role]

RolesOut ==
    LET ms == SelectSeq(out.Messages, LAMBDA m : m.Role # "tool")
    IN [i \in 1..Len(ms) |-> ms[i].Role]

ThinkingOnly(msg) ==
    /\ BlocksOf(msg) # << >>
    /\ \A i \in 1..Len(BlocksOf(msg)) : BlocksOf(msg)[i].type = "thinking"

\* the message yields a message of its role by itself: a string content, a text
\* block with a string text, or a valid tool_use block
KeepsItsTurn(msg) ==
    \/ msg.Content.kind = "string"
    \/ \E i \in 1..Len(BlocksOf(msg)) :
          \/ BlocksOf(msg)[i].type = "text" /\ BlocksOf(msg)[i].text.kind = "string"
          \/ ValidToolUse(BlocksOf(msg)[i])

(***************************************************************************)
(* C17 as stated: the user/assistant turns of the output are, in number    *)
(* and order, those of the input.                                          *)
(***************************************************************************)
C17_TurnsPreserved == Converted => RolesOut = RolesIn

(***************************************************************************)
(* C17: an assistant message of thinking blocks only yields exactly one    *)
(* assistant message with content "(thinking...)"; so when every other     *)
(* message has a string content, a text block or a valid tool_use block,   *)
(* the user/assistant turns of the output are, in number and order, those  *)
(* of the input.                                                           *)
(***************************************************************************)
C17_ThinkingOnlyPlaceholder ==
    Converted =>
        /\ \A k \in 1..Len(doc.Messages) :
              (doc.Messages[k].Role = "assistant" /\ ThinkingOnly(doc.Messages[k])) =>
                  Segment(k) = <<OpenAIMessage("assistant",
                                               StrContent(ThinkingPlaceholder), << >>, "")>>
        /\ (\A k \in 1..Len(doc.Messages) :
               \/ KeepsItsTurn(doc.Messages[k])
               \/ doc.Messages[k].Role = "assistant" /\ ThinkingOnly(doc.Messages[k]))
           => RolesOut = RolesIn

\* user, assistant with two thinking blocks, user
C17_Witness ==
    /\ phase = "q_done"
    /\ doc.Messages = <<MsgUserText,
                        ClaudeMessage("assistant", Arr(<<BlockThinking, BlockThinking>>)),
                        MsgUserText>>
    /\ Len(out.Messages) = 3
    /\ out.Messages[2].Content = StrContent(ThinkingPlaceholder)

\* the request without its invalid tool_use and tool_result blocks
WithoutInvalid(req) ==
    [req EXCEPT !.Messages =
        [k \in 1..Len(req.Messages) |->
            IF req.Messages[k].Content.kind = "array"
            THEN [req.Messages[k] EXCEPT !.Content.parts =
                     SelectSeq(@, LAMBDA b : ~InvalidToolBlock(b))]
            ELSE req.Messages[k]]]

(***************************************************************************)
(* C18: tool_use blocks without a non-empty string id and name and         *)
(* tool_result blocks without a non-empty string tool_use_id yield no      *)
(* tool_calls entry, no role=tool message and no error, and the request is *)
(* converted as the request without these blocks is.                       *)
(***************************************************************************)
C18_InvalidToolBlocksSkipped ==
    Converted =>
        /\ last = "nil"
        /\ out = ClaudeReqToOpenAI(WithoutInvalid(doc), "gpt-model")
        /\ Len(AllToolCalls(out.Messages))
              = Len(SelectSeq(AllBlocks(doc.Messages), ValidToolUse))
        /\ Len(SelectSeq(out.Messages, LAMBDA m : m.Role = "tool"))
              = Len(SelectSeq(AllBlocks(doc.Messages), ValidToolResult))

\* an assistant message of a tool_use block with a number for id and name, then a
\* text block: one message, the text, no tool call
C18_Witness ==
    /\ phase = "q_done"
    /\ doc.Messages = <<ClaudeMessage("assistant",
                            Arr(<<BlockToolUse(IdNumber, IdNumber, JsonObject),
                                  BlockText(Str(<<"a">>))>>))>>
    /\ out.Messages = <<OpenAIMessage("assistant", StrContent(<<"a">>), << >>, "")>>

(***************************************************************************)
(* ClaudeRespToOpenAI: a buffered Claude response to a Chat completion.    *)
(***************************************************************************)
RespBlock(type, text, id, name, input) ==
    [type |-> type, text |-> text, id |-> id, name |-> name, input |-> input]

\* json.Marshal(blockMap["input"])
MarshalBlockInput(input) == IF input.isNil THEN "null" ELSE ArgsObject

\* for _, block := range resp.Content; text is a string in every text block of
\* the responses converted here (on any other value the type assertion panics)
RECURSIVE p2oBlocks(_, _)
p2oBlocks(a, blocks) ==
    IF blocks = << >> THEN a
    ELSE LET b == Head(blocks)
             a1 == CASE b.type = "text" -> [a EXCEPT !.textContent = @ \o b.text]
                     [] b.type = "tool_use" ->
                           [a EXCEPT !.toolCalls =
                               Append(@, [id |-> b.id, type |-> "function",
                                          name |-> b.name,
                                          arguments |-> MarshalBlockInput(b.input)])]
                     [] OTHER -> a
         IN p2oBlocks(a1, Tail(blocks))

\* a faulty converter that takes the finish reason from the presence of tool calls
ClaudeRespToOpenAI_FinishFromTools(resp, model) ==
    LET a == p2oBlocks([textContent |-> Empty, toolCalls |-> << >>], resp.Content)
    IN [id |-> resp.ID, object |-> "chat.completion", model |-> model,
        message |-> [role |-> "assistant", content |-> a.textContent,
                     tool_calls |-> a.toolCalls],
        finish_reason |-> IF Len(a.toolCalls) > 0 THEN "tool_calls" ELSE "stop",
        prompt_tokens |-> resp.InputTokens,
        completion_tokens |-> resp.OutputTokens,
        total_tokens |-> resp.InputTokens + resp.OutputTokens]

\* ClaudeRespToOpenAI on a response that parses; an empty tool_calls is left out
\* of the message
ClaudeRespToOpenAI(resp, model) ==
    LET a == p2oBlocks([textContent |-> Empty, toolCalls |-> << >>], resp.Content)
    IN [id |-> resp.ID, object |-> "chat.completion", model |-> model,
        message |-> [role |-> "assistant", content |-> a.textContent,
                     tool_calls |-> a.toolCalls],
        finish_reason |-> IF resp.StopReason = "tool_use" THEN "tool_calls" ELSE "stop",
        prompt_tokens |-> resp.InputTokens,
        completion_tokens |-> resp.OutputTokens,
        total_tokens |-> resp.InputTokens + resp.OutputTokens]

\* content blocks in one Claude response
MaxRespBlocks == 3

\* text, thinking and tool_use blocks, a block of another type, and an element
\* of the content array that is not an object
RespBlocks ==
    {RespBlock("text", <<"a">>, "", "", JsonNil),
     RespBlock("text", <<"b">>, "", "", JsonNil),
     RespBlock("thinking", <<"r">>, "", "", JsonNil),
     RespBlock("tool_use", Empty, ToolIDs[1], ToolNames[1], JsonObject),
     RespBlock("image", Empty, "", "", JsonNil),
     RespBlock("", Empty, "", "", JsonNil)}

StopReasons == {"end_turn", "tool_use", "max_tokens", "stop_sequence", ""}

TokenCounts == {0, 5, 7}

ClaudeResponse(content, stopReason, inTokens, outTokens) ==
    [ID |-> "msg_1", Content |-> content, StopReason |-> stopReason,
     InputTokens |-> inTokens, OutputTokens |-> outTokens]

\* doc is the Claude response, out the converted response
InitC2P ==
    /\ ctx = NewStreamContext
    /\ out = << >>
    /\ done = FALSE
    /\ last = ""
    /\ \E n \in 0..MaxRespBlocks :
         \E content \in [1..n -> RespBlocks] :
           \E sr \in StopReasons :
             \E i \in TokenCounts, o \in TokenCounts :
               doc = ClaudeResponse(content, sr, i, o)
    /\ pos = 0
    /\ nExtra = 0
    /\ nReason = 0
    /\ upTools = << >>
    /\ phase = "p_input"

ConvertResponse ==
    /\ phase = "p_input"
    /\ out' = ClaudeRespToOpenAI(doc, "gpt-model")
    /\ last' = "nil"
    /\ phase' = "p_done"
    /\ UNCHANGED <<ctx, done, doc, pos, nExtra, nReason, upTools>>

NextC2P == ConvertResponse

SpecC2P == InitC2P /\ [][NextC2P]_vars

\* the text values of the response's text blocks, in order
TextBlocksOf(resp) ==
    LET ts == SelectSeq(resp.Content, LAMBDA b : b.type = "text")
    IN [i \in 1..Len(ts) |-> ts[i].text]

(***************************************************************************)
(* C20: finish_reason is tool_calls exactly when stop_reason is tool_use   *)
(* and stop otherwise; message.content is the concatenation of the text    *)
(* blocks in order, with nothing of the thinking blocks; prompt_tokens,    *)
(* completion_tokens and total_tokens are input_tokens, output_tokens and  *)
(* their sum.                                                              *)
(***************************************************************************)
C20_FinishReasonTextUsage ==
    phase = "p_done" =>
        /\ (out.finish_reason = "tool_calls") = (doc.StopReason = "tool_use")
        /\ doc.StopReason # "tool_use" => out.finish_reason = "stop"
        /\ out.message.content = Flatten(TextBlocksOf(doc))
        /\ ~Contains(out.message.content, <<"r">>)
        /\ out.prompt_tokens = doc.InputTokens
        /\ out.completion_tokens = doc.OutputTokens
        /\ out.total_tokens = doc.InputTokens + doc.OutputTokens

\* text, thinking and a tool_use block with stop_reason end_turn
C20_Witness ==
    /\ phase = "p_done"
    /\ Len(doc.Content) = 3
    /\ doc.Content[1].type = "text"
    /\ doc.Content[2].type = "thinking"
    /\ doc.Content[3].type = "tool_use"
    /\ doc.StopReason = "end_turn"
    /\ doc.InputTokens = 5
    /\ doc.OutputTokens = 7
    /\ out.message.content = <<"a">>
    /\ out.finish_reason = "stop"
    /\ out.total_tokens = 12

(***************************************************************************)
(* OpenAI2ReqToClaude: the Responses request's input array becomes Claude  *)
(* messages.  An input item is a JSON object held in a map; its string     *)
(* fields are read with `v, _ := m[key].(string)`, so an absent field is   *)
(* the empty string.  items is the array walked, in order.                 *)
(***************************************************************************)
InputItem(type, role, content, call_id, name, arguments, output) ==
    [type |-> type, role |-> role, content |-> content, call_id |-> call_id,
     name |-> name, arguments |-> arguments, output |-> output]

ItemMessage(role, content) == InputItem("message", role, content, "", "", "", Empty)

ItemFunctionCall(call_id, name, arguments) ==
    InputItem("function_call", "", Nil, call_id, name, arguments, Empty)

ItemFunctionCallOutput(call_id, output) ==
    InputItem("function_call_output", "", Nil, call_id, "", "", output)

\* an item of a type the switch has no case for
ItemReasoning == InputItem("reasoning", "", Nil, "", "", "", Empty)

\* a content part of a message item
ContentPart(type, text) == [type |-> type, text |-> text]

\* the blocks of a Claude message made here; unused fields are empty
O2Block(type, text, id, name, input, tool_use_id, content) ==
    [type |-> type, text |-> text, id |-> id, name |-> name, input |-> input,
     tool_use_id |-> tool_use_id, content |-> content]

\* var args interface{}; json.Unmarshal([]byte(argsStr), &args), and the empty
\* object when the string is not JSON
UnmarshalAny(argsStr) == IF argsStr \in {ArgsBroken, ""} THEN "{}" ELSE argsStr

\* convertOpenAI2ContentToClaude: the text parts, or the one text itself
convertOpenAI2ContentToClaude(content, role) ==
    IF content.kind # "array" THEN content
    ELSE LET ps == SelectSeq(content.parts,
                             LAMBDA p : p.type \in {"input_text", "output_text"})
             result == [i \in 1..Len(ps) |->
                           O2Block("text", ps[i].text, "", "", "", "", Empty)]
         IN IF Len(result) = 1 THEN Str(result[1].text) ELSE Arr(result)

\* messages = append(messages, {"role": role, "content": content})
O2Message(role, content) == [role |-> role, content |-> content]

\* if len(pendingToolUses) > 0 { append the assistant message; pendingToolUses = nil }
flushToolUses(a) ==
    IF Len(a.pendingToolUses) > 0
    THEN [a EXCEPT !.messages = Append(@, O2Message("assistant", Arr(a.pendingToolUses))),
                   !.pendingToolUses = << >>]
    ELSE a

\* if len(pendingToolResults) > 0 { append the user message; pendingToolResults = nil }
flushToolResults(a) ==
    IF Len(a.pendingToolResults) > 0
    THEN [a EXCEPT !.messages = Append(@, O2Message("user", Arr(a.pendingToolResults))),
                   !.pendingToolResults = << >>]
    ELSE a

\* case "message"
o2qItemMessage(a, item) ==
    [flushToolResults(flushToolUses(a)) EXCEPT !.messages =
        Append(@, O2Message(item.role,
                            convertOpenAI2ContentToClaude(item.content, item.role)))]

\* case "function_call"
o2qItemFunctionCall(a, item) ==
    [a EXCEPT !.pendingToolUses =
        Append(@, O2Block("tool_use", Empty, item.call_id, item.name,
                          UnmarshalAny(item.arguments), "", Empty))]

\* case "function_call_output"
o2qItemFunctionCallOutput(a, item) ==
    [flushToolUses(a) EXCEPT !.pendingToolResults =
        Append(@, O2Block("tool_result", Empty, "", "", "", item.call_id, item.output))]

\* the switch on itemType
o2qItem(a, item) ==
    CASE item.type = "message" -> o2qItemMessage(a, item)
      [] item.type = "function_call" -> o2qItemFunctionCall(a, item)
      [] item.type = "function_call_output" -> o2qItemFunctionCallOutput(a, item)
      [] OTHER -> a

\* for _, item := range v
RECURSIVE o2qItems(_, _)
o2qItems(a, items) ==
    IF items = << >> THEN a ELSE o2qItems(o2qItem(a, Head(items)), Tail(items))

convertOpenAI2InputToClaude(input) ==
    CASE input.kind = "string" -> <<O2Message("user", Str(input.v))>>
      [] input.kind = "array" ->
            flushToolResults(flushToolUses(
                o2qItems([messages |-> << >>, pendingToolUses |-> << >>,
                          pendingToolResults |-> << >>], input.parts))).messages
      [] OTHER -> << >>

(***************************************************************************)
(* The client of the Responses -> Claude request direction assembles an    *)
(* input array item by item, or sends a plain string, and the request is   *)
(* converted.                                                              *)
(***************************************************************************)
MaxItems == 4

InputItems ==
    {ItemMessage("user", Str(<<"h", "i">>)),
     ItemMessage("assistant", Arr(<<ContentPart("output_text", <<"o", "k">>)>>)),
     ItemFunctionCall(ToolIDs[1], ToolNames[1], ArgsObject),
     ItemFunctionCall(ToolIDs[2], ToolNames[2], ArgsBroken),
     ItemFunctionCallOutput(ToolIDs[1], <<"1">>),
     ItemFunctionCallOutput(ToolIDs[2], <<"2">>),
     ItemReasoning}

\* doc is the input of the request, out the Claude messages made from it
InitIn ==
    /\ ctx = NewStreamContext
    /\ out = << >>
    /\ done = FALSE
    /\ last = ""
    /\ doc = Arr(<< >>)
    /\ pos = 0
    /\ nExtra = 0
    /\ nReason = 0
    /\ upTools = << >>
    /\ phase = "i_build"

AddItem ==
    /\ phase = "i_build"
    /\ doc.kind = "array"
    /\ Len(doc.parts) < MaxItems
    /\ \E item \in InputItems : doc' = Arr(Append(doc.parts, item))
    /\ UNCHANGED <<ctx, out, done, last, pos, nExtra, nReason, upTools, phase>>

\* "input": "hi"
StringInput ==
    /\ phase = "i_build"
    /\ doc = Arr(<< >>)
    /\ doc' = Str(<<"h", "i">>)
    /\ UNCHANGED <<ctx, out, done, last, pos, nExtra, nReason, upTools, phase>>

ConvertInput ==
    /\ phase = "i_build"
    /\ out' = convertOpenAI2InputToClaude(doc)
    /\ phase' = "i_done"
    /\ UNCHANGED <<ctx, done, last, doc, pos, nExtra, nReason, upTools>>

NextIn == AddItem \/ StringInput \/ ConvertInput

SpecIn == InitIn /\ [][NextIn]_vars

\* the last index of the maximal run of consecutive items of one type that starts at i
RunEnd(items, i) ==
    CHOOSE j \in i..Len(items) :
        /\ \A k \in i..j : items[k].type = items[i].type
        /\ j = Len(items) \/ items[j + 1].type # items[i].type

\* the message a run of items i..j is to become
RunMessage(items, i) ==
    LET j == RunEnd(items, i)
    IN IF items[i].type = "function_call"
       THEN O2Message("assistant",
                Arr([k \in 1..(j - i + 1) |->
                        O2Block("tool_use", Empty, items[i + k - 1].call_id,
                                items[i + k - 1].name,
                                UnmarshalAny(items[i + k - 1].arguments), "", Empty)]))
       ELSE O2Message("user",
                Arr([k \in 1..(j - i + 1) |->
                        O2Block("tool_result", Empty, "", "", "",
                                items[i + k - 1].call_id, items[i + k - 1].output)]))

\* the messages, in input order: one per message item and one per run
RECURSIVE GroupedFrom(_, _)
GroupedFrom(items, i) ==
    IF i > Len(items) THEN << >>
    ELSE CASE items[i].type = "message" ->
                <<O2Message(items[i].role,
                            convertOpenAI2ContentToClaude(items[i].content,
                                                          items[i].role))>>
                \o GroupedFrom(items, i + 1)
           [] items[i].type \in {"function_call", "function_call_output"} ->
                <<RunMessage(items, i)>> \o GroupedFrom(items, RunEnd(items, i) + 1)
           [] OTHER -> GroupedFrom(items, i + 1)

(***************************************************************************)
(* C21: the messages made from an input array are, in input order, one     *)
(* message per message item, one assistant message of tool_use blocks per  *)
(* maximal run of consecutive function_call items and one user message of  *)
(* tool_result blocks per maximal run of consecutive function_call_output  *)
(* items.                                                                  *)
(***************************************************************************)
C21_RunsGrouped ==
    (phase = "i_done" /\ doc.kind = "array") => out = GroupedFrom(doc.parts, 1)

(***************************************************************************)
(* ClaudeReqToOpenAI2: a Claude request becomes a Responses request, a map *)
(* of which keys is the set of keys present.                               *)
(***************************************************************************)
\* extractSystemText of a system prompt that is a string
extractSystemText(system) == IF system.kind = "string" THEN system.v ELSE Empty

\* fmt.Sprintf("[Tool Call: %s(%s)]", m["name"], string(args))
ToolCallText(m) == Str(<<"[Tool Call: ", m.name.v, "(", MarshalInput(m.input), ")]">>)

\* fmt.Sprintf("[Tool Result: %v]", m["content"])
ToolResultText(m) == Str(<<"[Tool Result: ">> \o m.content.v \o <<"]">>)

\* one block of the content array: the parts appended for it
c2iBlock(m, contentType) ==
    CASE m.type = "text" -> <<ContentPart(contentType, m.text)>>
      [] m.type = "tool_use" -> <<ContentPart("output_text", ToolCallText(m))>>
      [] m.type = "tool_result" -> <<ContentPart("input_text", ToolResultText(m))>>
      [] OTHER -> << >>

RECURSIVE c2iBlocks(_, _, _)
c2iBlocks(parts, blocks, contentType) ==
    IF blocks = << >> THEN parts
    ELSE c2iBlocks(GoAppend(parts, c2iBlock(Head(blocks), contentType)), Tail(blocks),
                   contentType)

convertClaudeContentToOpenAI2(content, role) ==
    c2iBlocks(NilSlice, content,
              IF role = "assistant" THEN "output_text" ELSE "input_text")

\* the input item made from one message
c2iMessage(msg) ==
    [type |-> "message", role |-> msg.Role,
     content |-> CASE msg.Content.kind = "string" ->
                        GoAppend(NilSlice, <<ContentPart("input_text", msg.Content)>>)
                   [] msg.Content.kind = "array" ->
                        convertClaudeContentToOpenAI2(msg.Content.parts, msg.Role)
                   [] OTHER -> NilSlice]

RECURSIVE c2iMessages(_)
c2iMessages(msgs) ==
    IF msgs = << >> THEN << >> ELSE <<c2iMessage(Head(msgs))>> \o c2iMessages(Tail(msgs))

ClaudeReqToOpenAI2(req, model) ==
    [keys |-> {"model", "stream", "input"}
              \cup (IF req.System.kind # "nil" THEN {"instructions"} ELSE {})
              \cup (IF Len(req.Tools) > 0 THEN {"tools"} ELSE {}),
     model |-> model,
     stream |-> req.Stream,
     instructions |-> extractSystemText(req.System),
     input |-> GoAppend(NilSlice, c2iMessages(req.Messages)),
     tools |-> [i \in 1..Len(req.Tools) |->
                   [type |-> "function", name |-> req.Tools[i].Name,
                    description |-> req.Tools[i].Description,
                    parameters |-> req.Tools[i].InputSchema]]]

(***************************************************************************)
(* The Claude requests of the Claude -> Responses direction: at most       *)
(* MaxInputMessages messages of any role whose content is a string, a      *)
(* value that is neither a string nor an array, or an array of blocks,     *)
(* with at most MaxInputBlocks blocks in the whole request; with or        *)
(* without a system prompt and a tool.                                     *)
(***************************************************************************)
MaxInputMessages == 2

MaxInputBlocks == 2

InputBlocks ==
    {BlockText(Str(<<"a">>)),
     BlockText(Number),
     BlockThinking,
     BlockToolUse(IdStr(ToolIDs[1]), IdStr(ToolNames[1]), JsonObject),
     BlockToolResult(IdStr(ToolIDs[1]), Str(<<"o", "k">>)),
     BlockNotMap}

\* the messages whose content has at most n blocks
InputMessages(n) ==
    {ClaudeMessage(r, c) :
        r \in {"user", "assistant", "system"},
        c \in {Str(<<"h", "i">>), Number} \cup
              UNION {{Arr(bs) : bs \in [1..k -> InputBlocks]} : k \in 0..n}}

ClaudeTool == [Name |-> ToolNames[1], Description |-> "d", InputSchema |-> JsonObject]

\* doc is the request the client assembles, nExtra the number of its blocks,
\* out the converted request
InitC2I ==
    /\ ctx = NewStreamContext
    /\ out = << >>
    /\ done = FALSE
    /\ last = ""
    /\ doc \in {[System |-> sys] @@ [ClaudeRequest(<< >>) EXCEPT !.Tools = tools] :
                   sys \in {Nil, Str(<<"s">>)}, tools \in {<< >>, <<ClaudeTool>>}}
    /\ pos = 0
    /\ nExtra = 0
    /\ nReason = 0
    /\ upTools = << >>
    /\ phase = "i2_build"

AddInputMessage ==
    /\ phase = "i2_build"
    /\ Len(doc.Messages) < MaxInputMessages
    /\ \E m \in InputMessages(MaxInputBlocks - nExtra) :
          /\ doc' = [doc EXCEPT !.Messages = Append(@, m)]
          /\ nExtra' = nExtra + Len(BlocksOf(m))
    /\ UNCHANGED <<ctx, out, done, last, pos, nReason, upTools, phase>>

ConvertRequest2 ==
    /\ phase = "i2_build"
    /\ out' = ClaudeReqToOpenAI2(doc, "gpt-model")
    /\ last' = "nil"
    /\ phase' = "i2_done"
    /\ UNCHANGED <<ctx, done, doc, pos, nExtra, nReason, upTools>>

NextC2I == AddInputMessage \/ ConvertRequest2

SpecC2I == InitC2I /\ [][NextC2I]_vars

\* the message carries text only: a string, or an array of text blocks
TextOnly(msg) ==
    \/ msg.Content.kind = "string"
    \/ /\ msg.Content.kind = "array"
       /\ \A i \in 1..Len(msg.Content.parts) : msg.Content.parts[i].type = "text"

PartTypeOf(role) == IF role = "assistant" THEN "output_text" ELSE "input_text"

(***************************************************************************)
(* C22: in the converted request every part made from the text of a        *)
(* message (its string content or its text blocks) has the type            *)
(* output_text when the message's role is assistant and input_text when it *)
(* is user or system; the request has no max_output_tokens.                *)
(***************************************************************************)
C22_TextPartTypes ==
    phase = "i2_done" =>
        /\ "max_output_tokens" \notin out.keys
        /\ Len(out.input.elems) = Len(doc.Messages)
        /\ \A i \in 1..Len(doc.Messages) :
              TextOnly(doc.Messages[i]) =>
                 \A j \in 1..Len(out.input.elems[i].content.elems) :
                    out.input.elems[i].content.elems[j].type
                        = PartTypeOf(doc.Messages[i].Role)

(***************************************************************************)
(* OpenAIReqToClaude: a Chat request becomes a Claude request, a JSON      *)
(* object whose optional members are [isNil, v] values.  req is the        *)
(* OpenAIRequest struct the body was unmarshalled into.                    *)
(***************************************************************************)
Absent == [isNil |-> TRUE, v |-> 0]

Present(v) == [isNil |-> FALSE, v |-> v]

IsSpace(c) == c \in {" ", "\n", "\t", "\r"}

\* strings.TrimSpace
RECURSIVE TrimSpace(_)
TrimSpace(s) ==
    IF s = Empty THEN s
    ELSE IF IsSpace(Head(s)) THEN TrimSpace(Tail(s))
    ELSE IF IsSpace(s[Len(s)]) THEN TrimSpace(UpTo(s, Len(s) - 1))
    ELSE s

\* for _, tc := range msg.ToolCalls: the tool_use blocks
q2cToolCalls(tcs) ==
    [i \in 1..Len(tcs) |->
        BlockToolUse(IdStr(tcs[i].ID), IdStr(tcs[i].Name), UnmarshalArgs(tcs[i].Arguments))]

\* the Claude message made from one message that is not a system message
q2cMessage(msg) ==
    LET content == IF msg.Content.isNil THEN Nil ELSE Str(msg.Content.v)
        withCalls == IF Len(msg.ToolCalls) > 0
                     THEN Arr((IF content.kind = "string" /\ content.v # Empty
                               THEN <<BlockText(content)>> ELSE << >>)
                              \o q2cToolCalls(msg.ToolCalls))
                     ELSE content
    IN IF msg.Role = "tool"
       THEN ClaudeMessage("user", Arr(<<BlockToolResult(IdStr(msg.ToolCallID), content)>>))
       ELSE ClaudeMessage(msg.Role, withCalls)

\* for _, msg := range req.Messages
RECURSIVE q2cMessages(_, _)
q2cMessages(a, msgs) ==
    IF msgs = << >> THEN a
    ELSE LET msg == Head(msgs)
         IN IF msg.Role = "system"
            THEN q2cMessages([a EXCEPT !.systemPrompt =
                                 IF msg.Content.isNil THEN @
                                 ELSE @ \o msg.Content.v \o <<"\n">>],
                             Tail(msgs))
            ELSE q2cMessages([a EXCEPT !.messages = Append(@, q2cMessage(msg))],
                             Tail(msgs))

\* the tools of type function
q2cTools(tools) ==
    LET fs == SelectSeq(tools, LAMBDA t : t.Type = "function")
    IN [i \in 1..Len(fs) |->
           [Name |-> fs[i].Name, Description |-> fs[i].Description,
            InputSchema |-> fs[i].Parameters]]

\* if req.Temperature != nil { claudeReq["temperature"] = *req.Temperature }
q2cTemperature(req) == IF ~req.Temperature.isNil THEN req.Temperature ELSE Absent

OpenAIReqToClaude(req, model) ==
    LET a == q2cMessages([systemPrompt |-> Empty, messages |-> << >>], req.Messages)
    IN [model |-> model,
        max_tokens |-> Present(IF req.MaxTokens > 0 THEN req.MaxTokens
                               ELSE IF req.MaxCompletionTokens > 0
                               THEN req.MaxCompletionTokens
                               ELSE 8192),
        stream |-> req.Stream,
        temperature |-> q2cTemperature(req),
        system |-> IF a.systemPrompt # Empty THEN Str(TrimSpace(a.systemPrompt)) ELSE Nil,
        messages |-> a.messages,
        tools |-> q2cTools(req.Tools)]

\* json.Unmarshal(claudeReq, &req): the ClaudeRequest struct of a Claude request
UnmarshalClaudeRequest(j) ==
    [Model |-> j.model, Messages |-> j.messages,
     MaxTokens |-> IF j.max_tokens.isNil THEN 0 ELSE j.max_tokens.v,
     Temperature |-> IF j.temperature.isNil THEN 0 ELSE j.temperature.v,
     Stream |-> j.stream, Tools |-> j.tools,
     ToolChoice |-> [kind |-> "nil", v |-> "", name |-> IdMissing]]

\* json.Marshal of the OpenAIRequest struct, then json.Unmarshal into one
ReadOpenAIRequest(q) ==
    [Messages |-> q.Messages, MaxTokens |-> 0,
     MaxCompletionTokens |-> q.MaxCompletionTokens, Temperature |-> q.Temperature,
     Stream |-> q.Stream, Tools |-> q.Tools]

(***************************************************************************)
(* Round trips of buffered requests.  The client assembles a Claude        *)
(* request or a Chat request out of text, tool calls and tool results,     *)
(* with max_tokens and a temperature that is absent, 0 or 1; the request   *)
(* is converted to the other dialect and back.                             *)
(***************************************************************************)
MaxTurns == 3

MsgAssistantTextToolUse ==
    ClaudeMessage("assistant",
                  Arr(<<BlockText(Str(<<"a">>)),
                        BlockToolUse(IdStr(ToolIDs[1]), IdStr(ToolNames[1]), JsonObject)>>))

ClaudeTurns == ExchangeMessages \cup {MsgAssistantTextToolUse}

ChatTurns ==
    {OpenAIMessage("user", StrContent(<<"h", "i">>), << >>, ""),
     OpenAIMessage("assistant", StrContent(<<"a">>),
                   <<[ID |-> ToolIDs[1], Type |-> "function", Name |-> ToolNames[1],
                      Arguments |-> ArgsObject]>>, ""),
     OpenAIMessage("assistant", NoContent,
                   <<[ID |-> ToolIDs[1], Type |-> "function", Name |-> ToolNames[1],
                      Arguments |-> ArgsObject]>>, ""),
     OpenAIMessage("tool", StrContent(<<"o", "k">>), << >>, ToolIDs[1])}

Temperatures == {Absent, Present(0), Present(1)}

ClaudeJson(msgs, temperature) ==
    [model |-> "claude-model", max_tokens |-> Present(1024), stream |-> FALSE,
     temperature |-> temperature, system |-> Nil, messages |-> msgs, tools |-> << >>]

ChatJson(msgs, maxTokens, maxCompletionTokens, temperature) ==
    [Messages |-> msgs, MaxTokens |-> maxTokens,
     MaxCompletionTokens |-> maxCompletionTokens, Temperature |-> temperature,
     Stream |-> FALSE, Tools |-> << >>]

\* doc is the request x, out the request made by the two conversions
InitRT ==
    /\ ctx = NewStreamContext
    /\ out = << >>
    /\ done = FALSE
    /\ last = ""
    /\ \/ /\ phase = "claude_build"
          /\ doc \in {ClaudeJson(<< >>, t) : t \in Temperatures}
       \/ /\ phase = "chat_build"
          /\ doc \in {ChatJson(<< >>, n[1], n[2], t) :
                         n \in {<<1024, 0>>, <<0, 1024>>}, t \in Temperatures}
    /\ pos = 0
    /\ nExtra = 0
    /\ nReason = 0
    /\ upTools = << >>

AddClaudeTurn ==
    /\ phase = "claude_build"
    /\ Len(doc.messages) < MaxTurns
    /\ \E m \in ClaudeTurns : doc' = [doc EXCEPT !.messages = Append(@, m)]
    /\ UNCHANGED <<ctx, out, done, last, pos, nExtra, nReason, upTools, phase>>

AddChatTurn ==
    /\ phase = "chat_build"
    /\ Len(doc.Messages) < MaxTurns
    /\ \E m \in ChatTurns : doc' = [doc EXCEPT !.Messages = Append(@, m)]
    /\ UNCHANGED <<ctx, out, done, last, pos, nExtra, nReason, upTools, phase>>

\* OpenAIReqToClaude(ClaudeReqToOpenAI(x))
RoundTripClaude ==
    /\ phase = "claude_build"
    /\ out' = OpenAIReqToClaude(
                 ReadOpenAIRequest(ClaudeReqToOpenAI(UnmarshalClaudeRequest(doc),
                                                     "gpt-model")),
                 "claude-model")
    /\ phase' = "claude_done"
    /\ UNCHANGED <<ctx, done, last, doc, pos, nExtra, nReason, upTools>>

\* ClaudeReqToOpenAI(OpenAIReqToClaude(x))
RoundTripChat ==
    /\ phase = "chat_build"
    /\ out' = ReadOpenAIRequest(
                 ClaudeReqToOpenAI(
                    UnmarshalClaudeRequest(OpenAIReqToClaude(doc, "claude-model")),
                    "gpt-model"))
    /\ phase' = "chat_done"
    /\ UNCHANGED <<ctx, done, last, doc, pos, nExtra, nReason, upTools>>

NextRT == AddClaudeTurn \/ AddChatTurn \/ RoundTripClaude \/ RoundTripChat

SpecRT == InitRT /\ [][NextRT]_vars

\* what a Claude message says: its role, its text, its tool uses and tool results
ClaudeMeaning(m) ==
    LET bs == BlocksOf(m)
        uses == SelectSeq(bs, LAMBDA b : b.type = "tool_use")
        results == SelectSeq(bs, LAMBDA b : b.type = "tool_result")
    IN [role |-> m.Role,
        text |-> FlatText(m.Content),
        uses |-> [i \in 1..Len(uses) |-> <<uses[i].id, uses[i].name, uses[i].input>>],
        results |-> [i \in 1..Len(results) |->
                        <<results[i].tool_use_id, FlatText(results[i].content)>>]]

ClaudeMeanings(msgs) == [i \in 1..Len(msgs) |-> ClaudeMeaning(msgs[i])]

\* the output-token limit a Chat request asks for
ChatLimit(q) == IF q.MaxTokens > 0 THEN q.MaxTokens ELSE q.MaxCompletionTokens

(***************************************************************************)
(* C23: a request made of text, tool_use, tool_result, max_tokens and      *)
(* temperature comes back from the other dialect with the same roles in    *)
(* the same order, the same text, tool ids, names, inputs and tool_result  *)
(* contents, the same max_tokens and the same temperature (0 included),    *)
(* for Claude requests through Chat and for Chat requests through Claude.  *)
(***************************************************************************)
C23_RoundTrip ==
    /\ phase = "claude_done" =>
          /\ ClaudeMeanings(out.messages) = ClaudeMeanings(doc.messages)
          /\ out.max_tokens = doc.max_tokens
          /\ out.temperature = doc.temperature
    /\ phase = "chat_done" =>
          /\ out.Messages = doc.Messages
          /\ ChatLimit(out) = ChatLimit(doc)
          /\ out.Temperature = doc.Temperature

\* the part of the round trip that the code keeps: everything but temperature 0
RoundTripButTemperatureZero ==
    /\ phase = "claude_done" =>
          /\ ClaudeMeanings(out.messages) = ClaudeMeanings(doc.messages)
          /\ out.max_tokens = doc.max_tokens
          /\ doc.temperature # Present(0) => out.temperature = doc.temperature
    /\ phase = "chat_done" =>
          /\ out.Messages = doc.Messages
          /\ ChatLimit(out) = ChatLimit(doc)
          /\ doc.Temperature # Present(0) => out.Temperature = doc.Temperature

(***************************************************************************)
(* Observations on the blocks of the emitted Claude event sequence.        *)
(***************************************************************************)
\* the number of events of es that pass the test
CountOf(es, Test(_)) == Len(SelectSeq(es, Test))

\* the blocks started and not yet stopped after the first n events, by count
OpenCount(es, n) == CountOf(SubSeq(es, 1, n), IsStart) - CountOf(SubSeq(es, 1, n), IsStop)

\* the open-block flags of the context that are set
OpenFlags(c) ==
    {f \in {"text", "thinking", "tool_use"} :
        \/ f = "text" /\ c.ContentBlockStarted
        \/ f = "thinking" /\ c.ThinkingBlockStarted
        \/ f = "tool_use" /\ c.ToolBlockStarted}

(***************************************************************************)
(* C24 (refuted by the code): in a Chat -> Claude stream a                 *)
(* content_block_start is never emitted while a block started earlier has  *)
(* not received its content_block_stop, and at most one of the three       *)
(* open-block flags is set.                                                *)
(***************************************************************************)
C24_OneOpenBlock ==
    /\ \A n \in 1..Len(out) : IsStart(out[n]) => OpenCount(out, n - 1) = 0
    /\ Cardinality(OpenFlags(ctx)) <= 1

\* the indices open after the events es; ok is FALSE once a block is started with
\* an index that is open or stopped with an index that is not
RECURSIVE OpenAfter(_, _)
OpenAfter(a, es) ==
    IF es = << >> THEN a
    ELSE LET e == Head(es)
         IN CASE IsStart(e) ->
                   OpenAfter([ok |-> a.ok /\ e.index \notin a.open,
                              open |-> a.open \cup {e.index}], Tail(es))
              [] IsStop(e) ->
                   OpenAfter([ok |-> a.ok /\ e.index \in a.open,
                              open |-> a.open \ {e.index}], Tail(es))
              [] OTHER -> OpenAfter(a, Tail(es))

NoneOpen == [ok |-> TRUE, open |-> {}]

(***************************************************************************)
(* C25 (refuted by the code): when a Chat -> Claude stream has ended with  *)
(* [DONE], every content_block_start with index i is followed, before      *)
(* message_stop, by exactly one content_block_stop with index i, no        *)
(* content_block_stop carries an index that has no open block, and the     *)
(* three open-block flags are false.                                       *)
(***************************************************************************)
C25_StartsStopped ==
    done =>
        /\ OpenAfter(NoneOpen, out) = NoneOpen
        /\ OpenFlags(ctx) = {}

(***************************************************************************)
(* C26 (refuted by the code): in a Chat -> Claude stream that has emitted  *)
(* anything, the first event is message_start, carrying the id of the      *)
(* first chunk and ctx.ModelName with zero usage, and it is the only       *)
(* message_start.                                                          *)
(***************************************************************************)
C26_MessageStartFirst ==
    out # << >> =>
        /\ out[1] = EvMessageStart("chatcmpl-1", ctx.ModelName)
        /\ out[1].input_tokens = 0 /\ out[1].output_tokens = 0
        /\ \A i \in 2..Len(out) : out[i].type # "message_start"

\* the call on chunk f up to the point where choice.FinishReason is tested
BeforeFinish(f, c) ==
    chatToolCalls(chatContent(chatReasoning(chatMessageStart([ctx |-> c, result |-> << >>],
                                                             f), f), f),
                  f.ToolCalls)

\* a content_block_stop for each block the context holds open, in the order
\* thinking, text, tool
StopsInOrder(c) ==
    (IF c.ThinkingBlockStarted THEN <<EvBlockStop(c.ThinkingIndex)>> ELSE << >>)
    \o (IF c.ContentBlockStarted THEN <<EvBlockStop(c.ContentIndex)>> ELSE << >>)
    \o (IF c.ToolBlockStarted THEN <<EvBlockStop(c.ToolIndex)>> ELSE << >>)

IsMessageDelta(e) == e.type = "message_delta"

HasFinish(f) == f.data = "json" /\ f.hasChoices /\ f.FinishReason # "null"

(***************************************************************************)
(* C27: a call on a chunk whose finish_reason is not null ends its output  *)
(* with a content_block_stop for every block open at that point, in the    *)
(* order thinking, text, tool, followed by the call's only message_delta,   *)
(* whose stop_reason is tool_use for finish_reason tool_calls and end_turn *)
(* for every other value; afterwards finish_reason_sent is set and the     *)
(* three open-block flags are false.                                       *)
(***************************************************************************)
C27_FinishClosesAndReports ==
    [][HasFinish(last') =>
          LET mid == BeforeFinish(last', ctx)
              stopReason == IF last'.FinishReason = "tool_calls"
                            THEN "tool_use" ELSE "end_turn"
              result == SubSeq(out', Len(out) + 1, Len(out'))
          IN /\ out' = out \o mid.result \o StopsInOrder(mid.ctx)
                           \o <<EvMessageDelta(stopReason, [output_tokens |-> 0])>>
             /\ CountOf(result, IsMessageDelta) = 1
             /\ ctx'.FinishReasonSent
             /\ OpenFlags(ctx') = {}]_vars

\* finish_reason length has just closed a thinking block and a text block that
\* were both open
C27_Witness ==
    /\ HasFinish(last)
    /\ last.FinishReason = "length"
    /\ Len(out) >= 3
    /\ out[Len(out)] = EvMessageDelta("end_turn", [output_tokens |-> 0])
    /\ IsStop(out[Len(out) - 1])
    /\ IsStop(out[Len(out) - 2])
    /\ ctx.FinishReasonSent
    /\ OpenFlags(ctx) = {}

\* a message_delta that carries a stop_reason
IsStopReasonDelta(e) == IsMessageDelta(e) /\ e.stop_reason # ""

IsMessageStop(e) == e.type = "message_stop"

(***************************************************************************)
(* C28: the call on data: [DONE] emits the bytes the scanner still holds   *)
(* (as thinking inside a think region, as text outside), then a            *)
(* content_block_stop for every block still open, then a message_delta     *)
(* with stop_reason end_turn exactly when no finish_reason was processed   *)
(* earlier in the stream, then message_stop; the stream then holds exactly *)
(* one message_delta with a stop_reason and exactly one message_stop, and  *)
(* in_thinking_tag is false and thinking_buffer empty.                     *)
(***************************************************************************)
C28_DoneFlushesAndTerminates ==
    [][last'.data = "[DONE]" =>
          LET result == SubSeq(out', Len(out) + 1, Len(out'))
              held == SelectSeq(result, IsContentDelta)
              mid == flushThinkTaggedStream([ctx |-> ctx, result |-> << >>])
              endTurn == EvMessageDelta("end_turn", [output_tokens |-> 0])
          IN /\ ConcatText(held) = ctx.ThinkingBuffer
             /\ \A i \in 1..Len(held) : IsThinkingDelta(held[i]) = ctx.InThinkingTag
             /\ out' = out \o mid.result \o StopsInOrder(mid.ctx)
                           \o (IF phase = "finished" THEN << >> ELSE <<endTurn>>)
                           \o <<EvMessageStop>>
             /\ CountOf(out', IsStopReasonDelta) = 1
             /\ CountOf(out', IsMessageStop) = 1
             /\ OpenFlags(ctx') = {}
             /\ ~ctx'.InThinkingTag
             /\ ctx'.ThinkingBuffer = Empty]_vars

\* [DONE] after a finish_reason, with the held "<" flushed as text by [DONE]
C28_Witness ==
    /\ done
    /\ phase = "finished"
    /\ doc = DocTextLt
    /\ pos = Len(doc)
    /\ Len(out) >= 4
    /\ out[Len(out)] = EvMessageStop
    /\ IsStop(out[Len(out) - 1])
    /\ IsTextDelta(out[Len(out) - 2])
    /\ out[Len(out) - 2].text = <<"<">>
    /\ CountOf(out, IsMessageDelta) = 1

(***************************************************************************)
(* The two ->Claude streams side by side: a behaviour is a Chat -> Claude  *)
(* stream or a Responses -> Claude stream, told apart by phase.            *)
(***************************************************************************)
ChatPhases == {"streaming", "finished"}

InitToClaude == Init \/ InitR2C

ChatStreamStep == phase \in ChatPhases /\ Next

RespStreamStep == phase \notin ChatPhases /\ NextR2C

NextToClaude == ChatStreamStep \/ RespStreamStep

SpecToClaude == InitToClaude /\ [][NextToClaude]_vars

\* the index of the last block of the given kind started in es, or old when none is
LastStartIndex(es, kind, old) ==
    LET ss == SelectSeq(es, LAMBDA e : IsStart(e) /\ e.block = kind)
    IN IF ss = << >> THEN old ELSE ss[Len(ss)].index

(***************************************************************************)
(* C29: over any call of a ->Claude stream transformer ContentIndex does   *)
(* not decrease; ThinkingIndex and ToolIndex change only when the call     *)
(* starts a block of their kind, and then hold the index that block was    *)
(* started with; every block is started with a value ContentIndex had      *)
(* during the call, a thinking block with one it has since moved past.     *)
(***************************************************************************)
C29_IndicesFollowContentIndex ==
    [][LET result == SubSeq(out', Len(out) + 1, Len(out'))
       IN /\ ctx'.ContentIndex >= ctx.ContentIndex
          /\ ctx'.ThinkingIndex = LastStartIndex(result, "thinking", ctx.ThinkingIndex)
          /\ ctx'.ToolIndex = LastStartIndex(result, "tool_use", ctx.ToolIndex)
          /\ \A i \in 1..Len(result) :
                IsStart(result[i]) =>
                   /\ ctx.ContentIndex <= result[i].index
                   /\ result[i].index <= ctx'.ContentIndex
                   /\ result[i].block = "thinking" => result[i].index < ctx'.ContentIndex
      ]_vars

\* a Chat stream that opened a text block, then a tool block, then a thinking block
C29_Witness ==
    /\ phase \in ChatPhases
    /\ ctx.ContentIndex = 2
    /\ ctx.ToolIndex = 1
    /\ ctx.ThinkingIndex = 1
    /\ ctx.ToolBlockStarted
    /\ ctx.ThinkingBlockStarted

\* a Responses stream whose second function_call item was started with index 1
C29_WitnessResponses ==
    /\ phase \notin ChatPhases
    /\ ctx.ToolIndex = 1
    /\ ctx.ToolBlockStarted

\* the chunks without tool_calls that a call appended
PlainChunk(ch) == ch.kind = "chunk" /\ ch.tool_calls = << >>

(***************************************************************************)
(* C30: in a Claude -> Chat stream a text_delta produces exactly one chunk *)
(* whose delta.content is its text, a message_delta exactly one chunk      *)
(* whose finish_reason is tool_calls for stop_reason tool_use and stop     *)
(* otherwise, message_stop produces data: [DONE], and message_start,       *)
(* thinking deltas and events of other types (ping) produce nothing; when  *)
(* the stream has ended, [DONE] is its last output and its only [DONE].    *)
(***************************************************************************)
C30_ChunkPerEvent ==
    [][LET result == SubSeq(out', Len(out) + 1, Len(out'))
       IN /\ SubSeq(out', 1, Len(out)) = out
          /\ IsTextDelta(last') =>
                /\ Len(result) = 1
                /\ PlainChunk(result[1])
                /\ result[1].content = last'.text
                /\ result[1].finish_reason = ""
          /\ last'.type = "message_delta" =>
                /\ Len(result) = 1
                /\ PlainChunk(result[1])
                /\ result[1].content = Empty
                /\ result[1].finish_reason =
                      (IF last'.stop_reason = "tool_use" THEN "tool_calls" ELSE "stop")
          /\ last'.type = "message_stop" => result = <<OpenAIDone>>
          /\ (last'.type \in {"message_start", "ping"} \/ IsThinkingDelta(last')) =>
                result = << >>
          /\ done' =>
                /\ out'[Len(out')] = OpenAIDone
                /\ \A i \in 1..(Len(out') - 1) : out'[i] # OpenAIDone
      ]_vars

\* a stream with a thinking block, a text block and a tool_use block that ended
\* with stop_reason tool_use
C30_Witness ==
    /\ done
    /\ last.type = "message_stop"
    /\ out[Len(out)] = OpenAIDone
    /\ out[Len(out) - 1].kind = "chunk"
    /\ out[Len(out) - 1].finish_reason = "tool_calls"
    /\ \E i \in 1..Len(out) : PlainChunk(out[i]) /\ out[i].content # Empty
    /\ Len(upTools) = 1
    /\ pos = 3

(***************************************************************************)
(* The buffered splitter on a <think> that is never closed.                *)
(***************************************************************************)
\* the offsets at which sub occurs in s
Occurrences(s, sub) ==
    {i \in 0..(Len(s) - Len(sub)) : SubSeq(s, i + 1, i + Len(sub)) = sub}

\* the offset of the first <think> with no </think> after it, -1 if there is none
UnclosedOpen(text) ==
    LET opens == {i \in Occurrences(text, thinkTagOpen) :
                     ~Contains(From(text, i + Len(thinkTagOpen)), thinkTagClose)}
    IN IF opens = {} THEN -1 ELSE CHOOSE i \in opens : \A j \in opens : i <= j

(***************************************************************************)
(* C31: when the content holds a <think> with no later </think>, the       *)
(* blocks are those of the content before that marker followed by one text *)
(* block holding everything after the marker (never a thinking block); the *)
(* marker itself is dropped, and nothing is added when nothing follows it. *)
(***************************************************************************)
C31_UnclosedThinkIsText ==
    phase \in {"b_chat", "b_responses"} /\ UnclosedOpen(SplitInput) # -1 =>
        LET p == UnclosedOpen(SplitInput)
            after == From(SplitInput, p + Len(thinkTagOpen))
            bs == SplitBlocks(out)
        IN bs = splitThinkTaggedText(UpTo(SplitInput, p))
                   \o (IF after = Empty THEN << >> ELSE <<TextBlock(after)>>)

\* an empty closed region, then an unclosed <think> followed by text
C31_Witness ==
    /\ phase = "b_chat"
    /\ nExtra = 1
    /\ doc = Flatten(<<thinkTagOpen, thinkTagClose, thinkTagOpen, <<"a">>>>)
    /\ SplitBlocks(out) = <<TextBlock(<<"a">>)>>

\* nothing follows the unclosed marker: no block for it
C31_WitnessNothingFollows ==
    /\ phase = "b_responses"
    /\ nExtra = 1
    /\ doc = Flatten(<<<<"a">>, thinkTagOpen>>)
    /\ SplitBlocks(out) = <<TextBlock(<<"a">>)>>

(***************************************************************************)
(* Tool calls whose arguments string is or is not a JSON object, converted *)
(* towards Claude in a Chat request (an assistant message) and in a Chat   *)
(* response (the first choice).                                            *)
(***************************************************************************)
\* tool calls in one message
MaxCalls == 3

ArgumentStrings == {ArgsObject, ArgsArray, ArgsBroken}

CallSeqs ==
    UNION {[1..n -> {ChatToolCall(1 + (i % 2), a) : i \in 0..1, a \in ArgumentStrings}] :
              n \in 1..MaxCalls}

\* doc is the message text, upTools its tool calls; out is the converted body
InitArgs ==
    /\ ctx = NewStreamContext
    /\ out = << >>
    /\ done = FALSE
    /\ last = << >>
    /\ doc \in {Empty, <<"a">>}
    /\ pos = 0
    /\ nExtra = 0
    /\ nReason = 0
    /\ upTools \in CallSeqs
    /\ phase = "t_input"

ConvertCallsRequest ==
    /\ phase = "t_input"
    /\ last' = ChatJson(<<OpenAIMessage("assistant", StrContent(doc), upTools, "")>>,
                        1024, 0, Absent)
    /\ out' = OpenAIReqToClaude(last', "claude-model")
    /\ phase' = "t_request"
    /\ UNCHANGED <<ctx, done, doc, pos, nExtra, nReason, upTools>>

ConvertCallsResponse ==
    /\ phase = "t_input"
    /\ last' = ChatResponse(1, doc, upTools, "tool_calls")
    /\ out' = OpenAIRespToClaude(last')
    /\ phase' = "t_response"
    /\ UNCHANGED <<ctx, done, doc, pos, nExtra, nReason, upTools>>

NextArgs == ConvertCallsRequest \/ ConvertCallsResponse

SpecArgs == InitArgs /\ [][NextArgs]_vars

\* the tool_use blocks of the converted body, in order
ToolUseBlocks ==
    SelectSeq(IF phase = "t_request" THEN out.messages[1].Content.parts
              ELSE out.content.elems,
              LAMBDA b : b.type = "tool_use")

\* the JSON value expected for an arguments string: its object, else {}
ObjectOrEmpty(arguments) ==
    IF arguments = ArgsObject THEN [isNil |-> FALSE, fields |-> {<<"a", 1>>}]
    ELSE [isNil |-> FALSE, fields |-> {}]

(***************************************************************************)
(* C32: every tool call becomes one tool_use block, in order, whose input  *)
(* is the object parsed from the arguments string, and the empty object    *)
(* (not null) when the string is not a JSON object.                        *)
(***************************************************************************)
C32_ToolInputIsObject ==
    phase \in {"t_request", "t_response"} =>
        /\ Len(ToolUseBlocks) = Len(upTools)
        /\ \A k \in 1..Len(upTools) :
              ToolUseBlocks[k].input = ObjectOrEmpty(upTools[k].Arguments)

\* the block kind a delta type belongs to
BlockOfDelta(dtype) ==
    CASE dtype = "text_delta" -> "text"
      [] dtype = "thinking_delta" -> "thinking"
      [] dtype = "input_json_delta" -> "tool_use"
      [] OTHER -> "none"

\* the <<index, kind>> pairs of the blocks open after the events es; ok is FALSE
\* once a content_block_delta names an index and kind that are not open
RECURSIVE DeltasAfter(_, _)
DeltasAfter(a, es) ==
    IF es = << >> THEN a
    ELSE LET e == Head(es)
         IN CASE IsStart(e) ->
                   DeltasAfter([a EXCEPT !.open = @ \cup {<<e.index, e.block>>}], Tail(es))
              [] IsStop(e) ->
                   DeltasAfter([a EXCEPT !.open = {p \in @ : p[1] # e.index}], Tail(es))
              [] e.type = "content_block_delta" ->
                   DeltasAfter([a EXCEPT !.ok = @ /\ <<e.index, BlockOfDelta(e.dtype)>>
                                                        \in a.open],
                               Tail(es))
              [] OTHER -> DeltasAfter(a, Tail(es))

(***************************************************************************)
(* C33 (refuted by the code): in a Chat -> Claude stream every             *)
(* content_block_delta carries the index of a block that is open and of    *)
(* the delta's kind: text_delta in an open text block, thinking_delta in   *)
(* an open thinking block, input_json_delta in an open tool_use block.     *)
(***************************************************************************)
C33_DeltasInsideOpenBlock == DeltasAfter(NoneOpen, out).ok

\* the values of the blocks of one kind made by the buffered splitter, concatenated
SplitValues(text, kind) ==
    ConcatValues(SelectSeq(splitThinkTaggedText(text), LAMBDA b : b.type = kind))

\* every <think> of the content has a </think> after it
EveryThinkClosed(text) == UnclosedOpen(text) = -1

(***************************************************************************)
(* C34: the streaming scanner refines the buffered splitter on well-formed *)
(* content.  When a Chat stream without reasoning_content has ended with   *)
(* [DONE] and every <think> of the delivered content has a later </think>, *)
(* the thinking_delta values concatenate to the thinking blocks that       *)
(* splitThinkTaggedText makes of the whole content, and the text_delta     *)
(* values to its text blocks, however the content was cut into chunks.     *)
(***************************************************************************)
C34_StreamRefinesSplitter ==
    (done /\ nReason = 0 /\ EveryThinkClosed(Delivered)) =>
        /\ ThinkOf(out) = SplitValues(Delivered, "thinking")
        /\ TextOf(out) = SplitValues(Delivered, "text")

\* the overlapping-marker content, all delivered in at least three chunks: the
\* "<" before </think> and the trailing "<t" were held back on the way
C34_Witness ==
    /\ done
    /\ nReason = 0
    /\ doc = DocOverlap
    /\ pos = Len(doc)
    /\ Len(SelectSeq(out, IsThinkingDelta)) >= 2
    /\ ThinkOf(out) = <<"x", "<">>
    /\ TextOf(out) = <<"<", "t">>

\* the chunks carrying delta.tool_calls, in order
ToolChunks(chs) == SelectSeq(chs, IsToolChunk)

(***************************************************************************)
(* C35: in a Claude -> Chat stream the tool_calls chunk of the k-th        *)
(* tool_use block (counting from 0) carries index k, whatever text or      *)
(* thinking blocks come before or between the tool blocks, and             *)
(* ctx.ContentIndex changes only at the stop of a tool_use block.          *)
(***************************************************************************)
C35_ToolChunkIndices ==
    [][/\ \A k \in 1..Len(ToolChunks(out')) :
             ToolChunks(out')[k].tool_calls[1].index = k - 1
       /\ ctx'.ContentIndex # ctx.ContentIndex =>
             /\ last'.type = "content_block_stop"
             /\ phase = "c_tool_use"
             /\ ctx'.ContentIndex = ctx.ContentIndex + 1
      ]_vars

\* four blocks closed, two of them tool blocks, with the chunk of a text block
\* after the first tool chunk: the second tool chunk carries index 1
C35_Witness ==
    /\ phase = "c_idle"
    /\ pos = 4
    /\ Len(ToolChunks(out)) = 2
    /\ ToolChunks(out)[2].tool_calls[1].index = 1
    /\ \E i \in 1..Len(out) : out[i].kind = "chunk" /\ out[i].content # Empty
    /\ out[1].kind = "chunk" /\ IsToolChunk(out[1])

(***************************************************************************)
(* Well-formed Claude conversations: text turns of either role, and tool   *)
(* exchanges in which an assistant message with one or two tool_use blocks *)
(* (with or without text) is answered by the next user message, holding    *)
(* one tool_result block per call and possibly a text block before or      *)
(* after them.  upTools holds the ids awaiting their results, nExtra the   *)
(* number of ids used.                                                     *)
(***************************************************************************)
MaxConvMessages == 4

ToolUseBlocksFor(ids) ==
    [i \in 1..Len(ids) |-> BlockToolUse(IdStr(ids[i]), IdStr(ToolNames[1]), JsonObject)]

ToolResultBlocksFor(ids) ==
    [i \in 1..Len(ids) |-> BlockToolResult(IdStr(ids[i]), Str(<<"o", "k">>))]

InitConv ==
    /\ ctx = NewStreamContext
    /\ out = << >>
    /\ done = FALSE
    /\ last = ""
    /\ doc = ClaudeRequest(<< >>)
    /\ pos = 0
    /\ nExtra = 0
    /\ nReason = 0
    /\ upTools = << >>
    /\ phase = "w_free"

TurnText ==
    /\ phase = "w_free"
    /\ Len(doc.Messages) < MaxConvMessages
    /\ \E role \in {"user", "assistant"},
          content \in {Str(<<"h", "i">>), Arr(<<BlockText(Str(<<"a">>))>>)} :
        doc' = [doc EXCEPT !.Messages = Append(@, ClaudeMessage(role, content))]
    /\ UNCHANGED <<ctx, out, done, last, pos, nExtra, nReason, upTools, phase>>

TurnAssistantCalls ==
    /\ phase = "w_free"
    /\ Len(doc.Messages) + 1 < MaxConvMessages
    /\ \E n \in 1..2, withText \in BOOLEAN :
        LET ids == SubSeq(ToolIDs, nExtra + 1, nExtra + n)
            blocks == (IF withText THEN <<BlockText(Str(<<"a">>))>> ELSE << >>)
                      \o ToolUseBlocksFor(ids)
        IN /\ doc' = [doc EXCEPT !.Messages =
                         Append(@, ClaudeMessage("assistant", Arr(blocks)))]
           /\ upTools' = ids
           /\ nExtra' = nExtra + n
    /\ phase' = "w_calls"
    /\ UNCHANGED <<ctx, out, done, last, pos, nReason>>

TurnUserResults ==
    /\ phase = "w_calls"
    /\ \E text \in {"none", "before", "after"} :
        LET results == ToolResultBlocksFor(upTools)
            blocks == CASE text = "before" -> <<BlockText(Str(<<"b">>))>> \o results
                        [] text = "after" -> results \o <<BlockText(Str(<<"b">>))>>
                        [] OTHER -> results
        IN doc' = [doc EXCEPT !.Messages = Append(@, ClaudeMessage("user", Arr(blocks)))]
    /\ upTools' = << >>
    /\ phase' = "w_free"
    /\ UNCHANGED <<ctx, out, done, last, pos, nExtra, nReason>>

ConvertConversation ==
    /\ phase = "w_free"
    /\ out' = ClaudeReqToOpenAI(doc, "gpt-model")
    /\ last' = "nil"
    /\ phase' = "w_done"
    /\ UNCHANGED <<ctx, done, doc, pos, nExtra, nReason, upTools>>

NextConv == TurnText \/ TurnAssistantCalls \/ TurnUserResults \/ ConvertConversation

SpecConv == InitConv /\ [][NextConv]_vars

\* the ids of the tool calls of a Chat message
CallIDs(m) == {m.ToolCalls[i].ID : i \in 1..Len(m.ToolCalls)}

\* message i of ms is a tool message that follows the assistant message holding
\* its call, with nothing but tool messages answering that message in between
FollowsItsCall(ms, i) ==
    \E j \in 1..(i - 1) :
        /\ ms[j].Role = "assistant"
        /\ ms[i].ToolCallID \in CallIDs(ms[j])
        /\ \A k \in (j + 1)..(i - 1) :
              ms[k].Role = "tool" /\ ms[k].ToolCallID \in CallIDs(ms[j])

(***************************************************************************)
(* C36 (refuted by the code): in the Chat request made from a well-formed  *)
(* Claude conversation every role=tool message directly follows the        *)
(* assistant message whose tool_calls holds its tool_call_id, or another   *)
(* tool message answering that assistant message, also when the Claude     *)
(* user message mixes tool_result blocks with text blocks.                 *)
(***************************************************************************)
C36_ToolResultsFollowCalls ==
    phase = "w_done" =>
        \A i \in 1..Len(out.Messages) :
            out.Messages[i].Role = "tool" => FollowsItsCall(out.Messages, i)

\* a user message is text only or tool_result blocks only
NoMixedUserMessage ==
    \A i \in 1..Len(doc.Messages) :
        LET c == doc.Messages[i].Content
        IN c.kind = "array" =>
              ~(\E a, b \in 1..Len(c.parts) :
                   c.parts[a].type = "tool_result" /\ c.parts[b].type = "text")

\* the same property for conversations whose user messages do not mix
\* tool_result blocks with text
ToolResultsFollowCallsUnmixed ==
    (phase = "w_done" /\ NoMixedUserMessage) =>
        \A i \in 1..Len(out.Messages) :
            out.Messages[i].Role = "tool" => FollowsItsCall(out.Messages, i)

(***************************************************************************)
(* The upstream of the Claude -> Responses direction: a well-formed Claude *)
(* event stream.  message_start with its input_tokens, content blocks one  *)
(* at a time with consecutive indices (text, thinking or tool_use, each    *)
(* start, deltas, stop), pings anywhere, then one or two message_delta     *)
(* events with output_tokens and message_stop.  upTools is the upstream's  *)
(* record of its blocks, doc its usage: the input_tokens of message_start  *)
(* and the output_tokens of its latest message_delta; nReason counts the   *)
(* message_delta events.                                                   *)
(***************************************************************************)
MaxStreamEvents == 5

InitC2R ==
    /\ ctx = NewStreamContext
    /\ out = << >>
    /\ done = FALSE
    /\ last = NoEvent
    /\ doc = [input_tokens |-> 0, output_tokens |-> 0]
    /\ pos = 0
    /\ nExtra = 0
    /\ nReason = 0
    /\ upTools = << >>
    /\ phase = "r_init"

DeliverC2R(ev) ==
    LET s == ClaudeStreamToOpenAI2(ev, ctx)
    IN /\ ctx' = s.ctx
       /\ out' = out \o s.result
       /\ last' = ev

StreamMessageStart ==
    /\ phase = "r_init"
    /\ \E n \in {0, 5} :
        /\ DeliverC2R([EvMessageStart("msg_1", "claude-model") EXCEPT !.input_tokens = n])
        /\ doc' = [doc EXCEPT !.input_tokens = n]
    /\ phase' = "r_idle"
    /\ UNCHANGED <<done, pos, nExtra, nReason, upTools>>

StreamBlockStart ==
    /\ phase = "r_idle"
    /\ nExtra < MaxStreamEvents
    /\ \E block \in {"text", "thinking", "tool_use"} :
        LET n == Cardinality({i \in 1..Len(upTools) : upTools[i].block = "tool_use"})
            ev == IF block = "tool_use"
                  THEN EvBlockStart(pos, block, ToolIDs[n + 1], ToolNames[n + 1])
                  ELSE EvBlockStart(pos, block, "", "")
        IN /\ DeliverC2R(ev)
           /\ phase' = "r_" \o block
           /\ upTools' = Append(upTools, [block |-> block, index |-> pos, id |-> ev.id,
                                          name |-> ev.name, args |-> Empty,
                                          closed |-> FALSE])
    /\ nExtra' = nExtra + 1
    /\ UNCHANGED <<done, doc, pos, nReason>>

StreamBlockDelta ==
    /\ phase \in {"r_text", "r_thinking", "r_tool_use"}
    /\ nExtra < MaxStreamEvents
    /\ LET tok == <<Digits[nExtra + 1]>>
           ev == CASE phase = "r_text" -> EvBlockDelta(pos, "text_delta", tok)
                   [] phase = "r_thinking" -> EvBlockDelta(pos, "thinking_delta", tok)
                   [] OTHER -> EvBlockDelta(pos, "input_json_delta", tok)
       IN /\ DeliverC2R(ev)
          /\ upTools' = [upTools EXCEPT ![Len(upTools)].args = @ \o tok]
    /\ nExtra' = nExtra + 1
    /\ UNCHANGED <<done, doc, pos, nReason, phase>>

StreamBlockStop ==
    /\ phase \in {"r_text", "r_thinking", "r_tool_use"}
    /\ DeliverC2R(EvBlockStop(pos))
    /\ upTools' = [upTools EXCEPT ![Len(upTools)].closed = TRUE]
    /\ pos' = pos + 1
    /\ phase' = "r_idle"
    /\ UNCHANGED <<done, doc, nExtra, nReason>>

StreamPing ==
    /\ phase \notin {"r_init", "r_end"}
    /\ DeliverC2R(EvPing)
    /\ UNCHANGED <<done, doc, pos, nExtra, nReason, upTools, phase>>

StreamMessageDelta ==
    /\ phase \in {"r_idle", "r_delta"}
    /\ nReason < 2
    /\ \E sr \in {"end_turn", "tool_use"}, n \in {7, 9} :
        /\ DeliverC2R(EvMessageDelta(sr, [output_tokens |-> n]))
        /\ doc' = [doc EXCEPT !.output_tokens = n]
    /\ nReason' = nReason + 1
    /\ phase' = "r_delta"
    /\ UNCHANGED <<done, pos, nExtra, upTools>>

\* message_stop, after a message_delta or (a stream cut short) without one
StreamMessageStop ==
    /\ phase \in {"r_idle", "r_delta"}
    /\ DeliverC2R(EvMessageStop)
    /\ phase' = "r_end"
    /\ done' = TRUE
    /\ UNCHANGED <<doc, pos, nExtra, nReason, upTools>>

NextC2R ==
    \/ StreamMessageStart
    \/ StreamBlockStart
    \/ StreamBlockDelta
    \/ StreamBlockStop
    \/ StreamPing
    \/ StreamMessageDelta
    \/ StreamMessageStop

SpecC2R == InitC2R /\ [][NextC2R]_vars

\* the positions of the output events of one type that carry output_index idx
OutputAt(type, idx) ==
    {n \in 1..Len(out) : /\ out[n].type = type
                         /\ "output_index" \in DOMAIN out[n]
                         /\ out[n].output_index = idx}

\* the positions of the output events of one type
OutputOf(type) == {n \in 1..Len(out) : out[n].type = type}

\* the one element of a singleton set of positions
TheOne(ps) == CHOOSE n \in ps : TRUE

\* the events of the text block b: output_item.added and content_part.added,
\* and once it is closed output_text.done, content_part.done, output_item.done
TextItemWrapped(b) ==
    LET a == TheOne(OutputAt("response.output_item.added", b.index))
    IN /\ out[a].item = "message"
       /\ a + 1 \in OutputAt("response.content_part.added", b.index)
       /\ b.closed =>
             LET d == TheOne(OutputAt("response.output_item.done", b.index))
             IN /\ out[d].item = "message"
                /\ d - 2 \in OutputAt("response.output_text.done", b.index)
                /\ d - 1 \in OutputAt("response.content_part.done", b.index)
                /\ Cardinality(OutputAt("response.output_text.done", b.index)) = 1
                /\ Cardinality(OutputAt("response.content_part.done", b.index)) = 1

\* the events of the tool_use block b: output_item.added, and once it is closed
\* function_call_arguments.done with all its arguments, then output_item.done
ToolItemWrapped(b) ==
    LET a == TheOne(OutputAt("response.output_item.added", b.index))
    IN /\ out[a].item = "function_call"
       /\ out[a].call_id = b.id
       /\ b.closed =>
             LET d == TheOne(OutputAt("response.output_item.done", b.index))
             IN /\ out[d].item = "function_call"
                /\ d - 1 \in OutputAt("response.function_call_arguments.done", b.index)
                /\ out[d - 1].arguments = b.args
                /\ Cardinality(OutputAt("response.function_call_arguments.done",
                                        b.index)) = 1

(***************************************************************************)
(* C37: for a well-formed Claude event stream, ClaudeStreamToOpenAI2 emits *)
(* response.created for message_start; for every text or tool_use block    *)
(* one response.output_item.added at the block's index and, once the block *)
(* has stopped, exactly one response.output_item.done with that            *)
(* output_index after it (none before); a text block is wrapped in         *)
(* content_part.added ... output_text.done, content_part.done, a tool      *)
(* block's function_call_arguments.done carries all the accumulated        *)
(* arguments; a thinking block produces no event; response.completed is    *)
(* emitted once, at message_stop, directly followed by [DONE].             *)
(***************************************************************************)
C37_ItemLifecycle ==
    /\ OutputOf("response.created") = IF phase = "r_init" THEN {} ELSE {1}
    /\ \A n \in 1..Len(out) :
          "output_index" \in DOMAIN out[n] =>
              \E k \in 1..Len(upTools) : upTools[k].index = out[n].output_index
    /\ \A k \in 1..Len(upTools) :
          LET b == upTools[k]
              added == OutputAt("response.output_item.added", b.index)
              closed == OutputAt("response.output_item.done", b.index)
          IN IF b.block = "thinking"
             THEN \A n \in 1..Len(out) :
                     "output_index" \in DOMAIN out[n] => out[n].output_index # b.index
             ELSE /\ Cardinality(added) = 1
                  /\ Cardinality(closed) = IF b.closed THEN 1 ELSE 0
                  /\ \A a \in added, d \in closed : a < d
                  /\ b.block = "text" => TextItemWrapped(b)
                  /\ b.block = "tool_use" => ToolItemWrapped(b)
    /\ OutputOf("response.completed") = IF done THEN {Len(out) - 1} ELSE {}
    /\ OutputOf("[DONE]") = IF done THEN {Len(out)} ELSE {}

\* a finished stream with a text block, a thinking block and a tool block that
\* received arguments
C37_Witness ==
    /\ done
    /\ \E i, j, k \in 1..Len(upTools) :
          /\ upTools[i].block = "text" /\ upTools[i].args # Empty
          /\ upTools[j].block = "thinking"
          /\ upTools[k].block = "tool_use" /\ upTools[k].args # Empty
    /\ Cardinality(OutputOf("response.output_item.done")) = 2

(***************************************************************************)
(* C39: in a Claude -> Responses stream, response.completed carries as     *)
(* input_tokens the usage.input_tokens of message_start, as output_tokens  *)
(* the usage.output_tokens of the most recent message_delta (0 when there  *)
(* was none) and as total_tokens their sum; a message_delta itself         *)
(* produces no output.                                                     *)
(***************************************************************************)
C39_CompletedUsage ==
    [][/\ last'.type = "message_delta" => out' = out
       /\ (done' /\ ~done) =>
             LET c == out'[Len(out') - 1]
             IN /\ Len(out') = Len(out) + 2
                /\ c.type = "response.completed"
                /\ c.input_tokens = doc.input_tokens
                /\ c.output_tokens = doc.output_tokens
                /\ c.total_tokens = doc.input_tokens + doc.output_tokens
      ]_vars

\* two message_delta events, the last one with 7 output tokens, after a
\* message_start with 5 input tokens: response.completed reports 5, 7 and 12
C39_Witness ==
    /\ done
    /\ nReason = 2
    /\ doc = [input_tokens |-> 5, output_tokens |-> 7]
    /\ ctx.OutputTokens = 7
    /\ out[Len(out) - 1].total_tokens = 12

\* no message_delta at all: output_tokens is 0
C39_WitnessNoDelta ==
    /\ done
    /\ nReason = 0
    /\ doc.input_tokens = 5
    /\ out[Len(out) - 1].output_tokens = 0
    /\ out[Len(out) - 1].total_tokens = 5

\* the message_delta events emitted so far
MessageDeltas == SelectSeq(out, IsMessageDelta)

(***************************************************************************)
(* C38 (refuted by the code): in a Responses -> Claude stream the          *)
(* message_delta emitted at response.completed has stop_reason tool_use    *)
(* exactly when a function_call output item was added earlier in the       *)
(* stream, and end_turn otherwise, wherever the tool block stands and      *)
(* whatever its call_id.                                                   *)
(***************************************************************************)
C38_StopReasonFromToolItems ==
    phase \in {"r_completed", "r_end"} =>
        /\ Len(MessageDeltas) = 1
        /\ MessageDeltas[1].stop_reason =
              IF Len(upTools) > 0 THEN "tool_use" ELSE "end_turn"

\* every function_call item of the stream so far came with a call_id
EveryCallHasID == \A k \in 1..Len(upTools) : upTools[k].id # ""

\* the same property for streams whose function_call items all carry a call_id
StopReasonFromIdentifiedToolItems ==
    (phase \in {"r_completed", "r_end"} /\ EveryCallHasID) =>
        /\ Len(MessageDeltas) = 1
        /\ MessageDeltas[1].stop_reason =
              IF Len(upTools) > 0 THEN "tool_use" ELSE "end_turn"

\* the marker the scanner waits for in the mode of context c
AwaitedTag(c) == IF c.InThinkingTag THEN thinkTagClose ELSE thinkTagOpen

\* the non-empty proper prefixes of a marker
ProperPrefixes(tag) == {UpTo(tag, n) : n \in 1..(Len(tag) - 1)}

\* the longest trailing substring of s that is a proper prefix of tag, or empty
LongestTrailingPrefix(s, tag) ==
    LET fit == {n \in 1..Min(Len(s), Len(tag) - 1) :
                   From(s, Len(s) - n) \in ProperPrefixes(tag)}
    IN IF fit = {} THEN Empty
       ELSE From(s, Len(s) - (CHOOSE n \in fit : \A m \in fit : m <= n))

(***************************************************************************)
(* C40: the scanner's ThinkingBuffer is always empty or a proper prefix of *)
(* the marker awaited in the current mode (1..6 bytes of <think> when      *)
(* InThinkingTag is false, 1..7 bytes of </think> when it is true), never  *)
(* a complete marker.  After every content chunk it is the longest         *)
(* trailing substring of the scanned content (the bytes held before,       *)
(* followed by the chunk) that is such a prefix, and the held bytes are    *)
(* not emitted: in a stream without reasoning_content that has not ended,  *)
(* the emitted values followed by the buffer are the delivered content     *)
(* without its markers.                                                    *)
(***************************************************************************)
C40_BufferIsPartialMarker ==
    [][/\ ctx'.ThinkingBuffer \in {Empty} \cup ProperPrefixes(AwaitedTag(ctx'))
       /\ (last'.data = "json" /\ last'.Content # Empty) =>
             /\ ctx'.ThinkingBuffer =
                   LongestTrailingPrefix(ctx.ThinkingBuffer \o last'.Content,
                                         AwaitedTag(ctx'))
             /\ (nReason' = 0 /\ ~done') =>
                   ContentOf(out') \o ctx'.ThinkingBuffer
                      = StripMarkers(Delivered', FALSE)
      ]_vars

\* six bytes of <think> are held in text mode after a chunk that completed them
C40_Witness ==
    /\ ~done
    /\ ~ctx.InThinkingTag
    /\ ctx.ThinkingBuffer = UpTo(thinkTagOpen, 6)
    /\ last.Content # Empty
    /\ Len(last.Content) < 6

\* seven bytes of </think> are held in thinking mode
C40_WitnessClose ==
    /\ ~done
    /\ ctx.InThinkingTag
    /\ ctx.ThinkingBuffer = UpTo(thinkTagClose, 7)
    /\ \E i \in 1..Len(out) : IsThinkingDelta(out[i])

====
